---- MODULE Spec2Model ----
(***************************************************************************)
(* Model of liquidator-rs: the epoch scheduler of main(), the market task  *)
(* process_market() with its per-obligation retry loop, the health         *)
(* calculator, the selection policy and the instruction assembler.         *)
(*                                                                         *)
(* Addresses (Pubkey) are integers in disjoint ranges: markets 1..,        *)
(* obligation accounts 101.., reserves 201.., liquidity mints 301..,       *)
(* collateral mints 401.., supplies 5xx/6xx/7xx, wallet 800, sysvars 9xx,  *)
(* associated token accounts 1000 + mint.                                  *)
(* rust_decimal values are exact rationals <<numerator, denominator>>.     *)
(***************************************************************************)
EXTENDS Integers, Sequences, FiniteSets, TLC

\* ------------------------------------------------------------------------
\* Bounds of the model
\* ------------------------------------------------------------------------
\* usize / u64 counters are kept exact up to MaxCount and saturate there
MaxCount == 3
\* largest raw wallet balance of one mint
MaxBal == 2
\* the clock of the cache specification stops at MaxClock
MaxClock == 3
\* largest ttl of a cache, in ticks of that clock
MaxTtl == 2
\* markets 1..MaxFlaky are the ones whose RPC scans may fail or whose task
\* may panic in the scheduler specification
MaxFlaky == 1

\* ------------------------------------------------------------------------
\* Program constants
\* ------------------------------------------------------------------------
\* main.rs:101  Semaphore::new(10)
Permits == 10
\* utils.rs:9   WAD = 10^18, scaled down to 100 to fit TLC's integers; every
\* *_wads amount of the model is expressed in this unit
WAD == 100
\* obligation.rs:6
OBLIGATION_SIZE == 1300
\* reserve.rs:7
RESERVE_SIZE == 619

Wallet == 800
ClockSysvar == 900
TokenProgram == 901

NoneVal == [none |-> TRUE]

\* ------------------------------------------------------------------------
\* rust_decimal::Decimal as exact non-negative rationals
\* ------------------------------------------------------------------------
RECURSIVE GCD(_, _)
GCD(a, b) == IF b = 0 THEN a ELSE GCD(b, a % b)

Rat(n, d) == LET g == GCD(n, d) IN IF g = 0 THEN <<0, 1>> ELSE <<n \div g, d \div g>>

RInt(n) == <<n, 1>>

RAdd(x, y) == Rat(x[1] * y[2] + y[1] * x[2], x[2] * y[2])

RMul(x, y) == Rat(x[1] * y[1], x[2] * y[2])

RDiv(x, y) == Rat(x[1] * y[2], x[2] * y[1])

RGt(x, y) == x[1] * y[2] > y[1] * x[2]

RLe(x, y) == ~RGt(x, y)

RECURSIVE RSum(_)
RSum(s) == IF s = <<>> THEN RInt(0) ELSE RAdd(Head(s), RSum(Tail(s)))

Min(a, b) == IF a < b THEN a ELSE b

Bump(n) == IF n < MaxCount THEN n + 1 ELSE n

\* ------------------------------------------------------------------------
\* The markets catalog (MarketConfig, MarketConfigReserve)
\* ------------------------------------------------------------------------
MarketConfigReserve(addr, sym, mint) ==
    [ address |-> addr, symbol |-> sym, mint |-> mint, decimals |-> 0,
      pyth_oracle |-> addr + 700, switchboard_oracle |-> addr + 750,
      collateral_mint_address |-> addr + 200,
      collateral_supply_address |-> addr + 300,
      liquidity_address |-> addr + 400,
      liquidity_fee_receiver_address |-> addr + 500 ]

\* market 1 lists the reserves of tokens A and B; the other markets list none
MarketConfig(m) ==
    [ address |-> m, authority_address |-> m + 50,
      reserves |-> IF m = 1
                   THEN << MarketConfigReserve(201, "A", 301),
                           MarketConfigReserve(202, "B", 302) >>
                   ELSE << >> ]

\* MarketConfig::find_reserve: the first reserve with that symbol
find_reserve(market, symbol) ==
    LET I == {i \in 1..Len(market.reserves) : market.reserves[i].symbol = symbol}
    IN  IF I = {} THEN NoneVal
        ELSE market.reserves[CHOOSE i \in I : \A j \in I : i <= j]

\* ------------------------------------------------------------------------
\* Decoded on-chain records (Reserve, Obligation) and oracle data
\* ------------------------------------------------------------------------
Reserve(mint, avail, borrowed, supply, ltv, threshold) ==
    [ mint_pubkey |-> mint, available_amount |-> avail,
      borrowed_amount_wads |-> borrowed, mint_total_supply |-> supply,
      loan_to_value_ratio |-> ltv, liquidation_threshold |-> threshold ]

\* the reserves of market 1 as get_reserves returns them; reserve 203 is on
\* chain but not in the catalog, and its collateral supply is zero
ChainReserves ==
    (201 :> Reserve(301, 1, WAD, 2, 40, 50)) @@
    (202 :> Reserve(302, 2, 0, 2, 40, 50)) @@
    (203 :> Reserve(303, 0, 0, 0, 40, 50))

TokenOracleData(sym, mint, dec, price) ==
    [ symbol |-> sym, mint_address |-> mint, decimals |-> dec, price |-> price ]

\* the symbol -> TokenOracleData maps get_tokens_oracle_data may return for
\* market 1: both prices, or the price of A only (oracle of B unreadable)
OracleFull ==
    ("A" :> TokenOracleData("A", 301, 1, RInt(1))) @@
    ("B" :> TokenOracleData("B", 302, 10, RInt(20)))

OracleOnlyA == ("A" :> TokenOracleData("A", 301, 1, RInt(1)))

EmptyMap == [x \in {} |-> 0]

OracleChoices(m) == IF m = 1 THEN {OracleFull, OracleOnlyA} ELSE {EmptyMap}

ReservesOf(m) == IF m = 1 THEN ChainReserves ELSE EmptyMap

ObligationCollateral(r, amt) == [deposit_reserve |-> r, deposited_amount |-> amt]

ObligationLiquidity(r, wads) == [borrow_reserve |-> r, borrowed_amount_wads |-> wads]

Obligation(market, deps, bors) ==
    [ lending_market |-> market, deposits |-> deps, borrows |-> bors ]

\* the obligations an account of market 1 may hold
ObligationPool ==
    << Obligation(1, << >>, << >>),
       Obligation(1, <<ObligationCollateral(201, 4)>>, <<ObligationLiquidity(202, WAD \div 2)>>),
       Obligation(1, <<ObligationCollateral(201, 4)>>, <<ObligationLiquidity(202, WAD)>>),
       Obligation(1, <<ObligationCollateral(201, 4)>>, <<ObligationLiquidity(202, 2 * WAD)>>),
       Obligation(1, <<ObligationCollateral(201, 2), ObligationCollateral(202, 1)>>,
                     <<ObligationLiquidity(201, 3 * WAD), ObligationLiquidity(202, (3 * WAD) \div 2)>>),
       Obligation(1, << >>, <<ObligationLiquidity(201, WAD)>>),
       Obligation(1, <<ObligationCollateral(203, 5), ObligationCollateral(201, 2)>>,
                     <<ObligationLiquidity(202, WAD)>>) >>

\* ------------------------------------------------------------------------
\* Health calculator (liquidation/refresh.rs, models/reserve.rs)
\* ------------------------------------------------------------------------
get_collateral_exchange_rate(reserve) ==
    LET total_liquidity == RAdd(RMul(RInt(reserve.available_amount), RInt(WAD)),
                                RInt(reserve.borrowed_amount_wads))
    IN  IF reserve.mint_total_supply = 0 \/ total_liquidity[1] = 0
        THEN RInt(WAD)
        ELSE RDiv(RMul(RInt(reserve.mint_total_supply), RInt(WAD)), total_liquidity)

get_liquidation_threshold_rate(reserve) == RDiv(RInt(reserve.liquidation_threshold), RInt(100))

\* oracle_data.values().find(|o| o.mint_address == mint_addr)
FindOracle(oracle_data, mint) ==
    LET S == {s \in DOMAIN oracle_data : oracle_data[s].mint_address = mint}
    IN  IF S = {} THEN NoneVal ELSE oracle_data[CHOOSE s \in S : TRUE]

Resolves(reserve_addr, reserves, oracle_data) ==
    /\ reserve_addr \in DOMAIN reserves
    /\ FindOracle(oracle_data, reserves[reserve_addr].mint_pubkey) # NoneVal

RefreshedDeposit(deposit, reserves, oracle_data) ==
    LET reserve == reserves[deposit.deposit_reserve]
        oracle == FindOracle(oracle_data, reserve.mint_pubkey)
        liquidity_amount == RDiv(RInt(deposit.deposited_amount),
                                 get_collateral_exchange_rate(reserve))
    IN  [ deposit_reserve |-> deposit.deposit_reserve,
          deposited_amount |-> deposit.deposited_amount,
          market_value |-> RDiv(RMul(liquidity_amount, oracle.price), RInt(oracle.decimals)),
          symbol |-> oracle.symbol,
          mint_address |-> reserve.mint_pubkey ]

RefreshedBorrow(borrow, reserves, oracle_data) ==
    LET reserve == reserves[borrow.borrow_reserve]
        oracle == FindOracle(oracle_data, reserve.mint_pubkey)
        borrowed_amount == RDiv(RInt(borrow.borrowed_amount_wads), RInt(WAD))
    IN  [ borrow_reserve |-> borrow.borrow_reserve,
          borrowed_amount_wads |-> borrow.borrowed_amount_wads,
          market_value |-> RDiv(RMul(borrowed_amount, oracle.price), RInt(oracle.decimals)),
          symbol |-> oracle.symbol,
          mint_address |-> reserve.mint_pubkey ]

MapSeq(s, Op(_)) == [i \in 1..Len(s) |-> Op(s[i])]

calculate_refreshed_obligation(obligation, reserves, oracle_data) ==
    LET deps == SelectSeq(obligation.deposits,
                    LAMBDA d : Resolves(d.deposit_reserve, reserves, oracle_data))
        bors == SelectSeq(obligation.borrows,
                    LAMBDA b : Resolves(b.borrow_reserve, reserves, oracle_data))
        refreshed_deposits == MapSeq(deps, LAMBDA d : RefreshedDeposit(d, reserves, oracle_data))
        refreshed_borrows == MapSeq(bors, LAMBDA b : RefreshedBorrow(b, reserves, oracle_data))
    IN  [ borrowed_value |-> RSum(MapSeq(refreshed_borrows, LAMBDA b : b.market_value)),
          unhealthy_borrow_value |->
              RSum(MapSeq(refreshed_deposits, LAMBDA d :
                     RMul(d.market_value,
                          get_liquidation_threshold_rate(reserves[d.deposit_reserve])))),
          deposits |-> refreshed_deposits,
          borrows |-> refreshed_borrows ]

\* a comparison that also counts an obligation exactly at its threshold
is_unhealthy_AtThreshold(refreshed) ==
    ~RGt(refreshed.unhealthy_borrow_value, refreshed.borrowed_value)

is_unhealthy(refreshed) == RGt(refreshed.borrowed_value, refreshed.unhealthy_borrow_value)

\* Iterator::max_by keeps the last of several equally maximal elements
MaxBy(s) ==
    IF s = << >> THEN NoneVal
    ELSE s[CHOOSE i \in 1..Len(s) :
               /\ \A j \in 1..Len(s) : RLe(s[j].market_value, s[i].market_value)
               /\ \A j \in (i + 1)..Len(s) : RGt(s[i].market_value, s[j].market_value)]

select_repay_borrow(refreshed) == MaxBy(refreshed.borrows)

select_withdraw_deposit(refreshed) == MaxBy(refreshed.deposits)

\* ------------------------------------------------------------------------
\* Instruction assembler (liquidation/instructions.rs, liquidation/execute.rs)
\* ------------------------------------------------------------------------
AccountMeta(pubkey, is_signer, is_writable) ==
    [ pubkey |-> pubkey, is_signer |-> is_signer, is_writable |-> is_writable ]

\* AccountMeta::new is writable, AccountMeta::new_readonly is not
MetaNew(pubkey, is_signer) == AccountMeta(pubkey, is_signer, TRUE)

MetaReadonly(pubkey, is_signer) == AccountMeta(pubkey, is_signer, FALSE)

\* the same eight bytes, most significant first
to_be_bytes(n) == [i \in 1..8 |-> IF i = 8 THEN n % 256
                                  ELSE IF i = 7 THEN (n \div 256) % 256
                                  ELSE IF i = 6 THEN (n \div 65536) % 256
                                  ELSE IF i = 5 THEN (n \div 16777216) % 256
                                  ELSE 0]

\* u64::to_le_bytes
to_le_bytes(n) == [i \in 1..8 |-> IF i = 1 THEN n % 256
                                  ELSE IF i = 2 THEN (n \div 256) % 256
                                  ELSE IF i = 3 THEN (n \div 65536) % 256
                                  ELSE IF i = 4 THEN (n \div 16777216) % 256
                                  ELSE 0]

get_associated_token_address(wallet_address, mint) == 1000 + mint

refresh_reserve_instruction(reserve, pyth_oracle, switchboard_oracle) ==
    [ data |-> <<3>>,
      accounts |-> << MetaNew(reserve, FALSE),
                      MetaReadonly(pyth_oracle, FALSE),
                      MetaReadonly(switchboard_oracle, FALSE) >> ]

refresh_obligation_instruction(obligation, deposit_reserves, borrow_reserves) ==
    [ data |-> <<7>>,
      accounts |-> << MetaNew(obligation, FALSE), MetaReadonly(ClockSysvar, FALSE) >>
                   \o MapSeq(deposit_reserves, LAMBDA r : MetaReadonly(r, FALSE))
                   \o MapSeq(borrow_reserves, LAMBDA r : MetaReadonly(r, FALSE)) ]

liquidate_and_redeem_instruction(liquidity_amount, repay_account, withdraw_collateral_account, withdraw_liquidity_account, repay_reserve, repay_reserve_liquidity, withdraw_reserve, withdraw_reserve_collateral_mint, withdraw_reserve_collateral_supply, withdraw_reserve_liquidity, withdraw_reserve_liquidity_fee_receiver, obligation, lending_market, lending_market_authority, user_transfer_authority) ==
    [ data |-> <<12>> \o to_le_bytes(liquidity_amount),
      accounts |-> << MetaNew(repay_reserve_liquidity, FALSE),
                      MetaNew(withdraw_reserve_collateral_supply, FALSE),
                      MetaNew(withdraw_reserve_liquidity, FALSE),
                      MetaNew(repay_account, FALSE),
                      MetaNew(withdraw_collateral_account, FALSE),
                      MetaNew(withdraw_liquidity_account, FALSE),
                      MetaNew(repay_reserve, FALSE),
                      MetaNew(withdraw_reserve, FALSE),
                      MetaNew(obligation, FALSE),
                      MetaReadonly(lending_market, FALSE),
                      MetaReadonly(lending_market_authority, FALSE),
                      MetaReadonly(user_transfer_authority, TRUE),
                      MetaReadonly(ClockSysvar, FALSE),
                      MetaReadonly(TokenProgram, FALSE),
                      MetaNew(withdraw_reserve_collateral_mint, FALSE),
                      MetaNew(withdraw_reserve_liquidity_fee_receiver, FALSE) >> ]

\* a collection that leaves out the reserves of the borrows
UniqueReserves_DepositsOnly(obligation) ==
    {obligation.deposits[i].deposit_reserve : i \in 1..Len(obligation.deposits)}

\* the reserves referenced by the obligation (the HashSet unique_reserves)
UniqueReserves(obligation) ==
    {obligation.deposits[i].deposit_reserve : i \in 1..Len(obligation.deposits)}
    \cup {obligation.borrows[i].borrow_reserve : i \in 1..Len(obligation.borrows)}

\* the orders in which a HashSet may be iterated
IterationOrders(S) ==
    {s \in [1..Cardinality(S) -> S] : \A i, j \in 1..Cardinality(S) : i # j => s[i] # s[j]}

\* market.reserves.iter().find(|r| r.address == reserve_addr)
ConfigByAddress(market, addr) ==
    LET I == {i \in 1..Len(market.reserves) : market.reserves[i].address = addr}
    IN  IF I = {} THEN NoneVal
        ELSE market.reserves[CHOOSE i \in I : \A j \in I : i <= j]

\* execute.rs:78  let obligation_pubkey = obligation.lending_market;
AssembledObligationPubkey(obligation) == obligation.lending_market

\* an assembly that leaves out the reserves the catalog lacks
AssembleInstructions_SkipsAbsent(order, payer, liquidity_amount, repay_token_symbol, withdraw_token_symbol, market, obligation) ==
    LET repay_reserve == find_reserve(market, repay_token_symbol)
        withdraw_reserve == find_reserve(market, withdraw_token_symbol)
        obligation_pubkey == AssembledObligationPubkey(obligation)
    IN  IF repay_reserve = NoneVal
        THEN [ok |-> FALSE, error |-> "repay token not found"]
        ELSE IF withdraw_reserve = NoneVal
        THEN [ok |-> FALSE, error |-> "withdraw token not found"]
        ELSE [ok |-> TRUE,
              instructions |->
                MapSeq(SelectSeq(order, LAMBDA r : ConfigByAddress(market, r) # NoneVal), LAMBDA r :
                    refresh_reserve_instruction(r,
                        ConfigByAddress(market, r).pyth_oracle,
                        ConfigByAddress(market, r).switchboard_oracle))
                \o << refresh_obligation_instruction(obligation_pubkey,
                        MapSeq(obligation.deposits, LAMBDA d : d.deposit_reserve),
                        MapSeq(obligation.borrows, LAMBDA b : b.borrow_reserve)) >>
                \o << liquidate_and_redeem_instruction(liquidity_amount,
                        get_associated_token_address(payer, repay_reserve.mint),
                        get_associated_token_address(payer, withdraw_reserve.collateral_mint_address),
                        get_associated_token_address(payer, withdraw_reserve.mint),
                        repay_reserve.address,
                        repay_reserve.liquidity_address,
                        withdraw_reserve.address,
                        withdraw_reserve.collateral_mint_address,
                        withdraw_reserve.collateral_supply_address,
                        withdraw_reserve.liquidity_address,
                        withdraw_reserve.liquidity_fee_receiver_address,
                        obligation_pubkey,
                        market.address,
                        market.authority_address,
                        payer) >> ]

\* The instruction list liquidate_and_redeem builds before it asks for a
\* blockhash, or an error.  order is the iteration order of unique_reserves.
\* The dry_run argument that main.rs passes has no counterpart in the
\* function: its body never reads such a flag.
AssembleInstructions(order, payer, liquidity_amount, repay_token_symbol, withdraw_token_symbol, market, obligation) ==
    LET repay_reserve == find_reserve(market, repay_token_symbol)
        withdraw_reserve == find_reserve(market, withdraw_token_symbol)
        obligation_pubkey == AssembledObligationPubkey(obligation)
    IN  IF \E i \in 1..Len(order) : ConfigByAddress(market, order[i]) = NoneVal
        THEN [ok |-> FALSE, error |-> "reserve not found in market config"]
        ELSE IF repay_reserve = NoneVal
        THEN [ok |-> FALSE, error |-> "repay token not found"]
        ELSE IF withdraw_reserve = NoneVal
        THEN [ok |-> FALSE, error |-> "withdraw token not found"]
        ELSE [ok |-> TRUE,
              instructions |->
                MapSeq(order, LAMBDA r :
                    refresh_reserve_instruction(r,
                        ConfigByAddress(market, r).pyth_oracle,
                        ConfigByAddress(market, r).switchboard_oracle))
                \o << refresh_obligation_instruction(obligation_pubkey,
                        MapSeq(obligation.deposits, LAMBDA d : d.deposit_reserve),
                        MapSeq(obligation.borrows, LAMBDA b : b.borrow_reserve)) >>
                \o << liquidate_and_redeem_instruction(liquidity_amount,
                        get_associated_token_address(payer, repay_reserve.mint),
                        get_associated_token_address(payer, withdraw_reserve.collateral_mint_address),
                        get_associated_token_address(payer, withdraw_reserve.mint),
                        repay_reserve.address,
                        repay_reserve.liquidity_address,
                        withdraw_reserve.address,
                        withdraw_reserve.collateral_mint_address,
                        withdraw_reserve.collateral_supply_address,
                        withdraw_reserve.liquidity_address,
                        withdraw_reserve.liquidity_fee_receiver_address,
                        obligation_pubkey,
                        market.address,
                        market.authority_address,
                        payer) >> ]

\* ------------------------------------------------------------------------
\* Chain access (rpc.rs, wallet/balance.rs)
\* ------------------------------------------------------------------------
Mints == {301, 302}

\* a scanned program account: its address, the length of its data, and what
\* the decoder reads from it
RawAccount(pubkey, len, slot, obligation) ==
    [ pubkey |-> pubkey, len |-> len, slot |-> slot, obligation |-> obligation ]

\* Obligation::parse succeeds unless the data is shorter than OBLIGATION_SIZE
ParsesAsObligation(account) == ~(account.len < OBLIGATION_SIZE)

\* a scan that gives up on the first account that does not decode
get_obligations_FailFast(accounts) ==
    IF \E i \in 1..Len(accounts) : ~ParsesAsObligation(accounts[i])
    THEN << >>
    ELSE MapSeq(SelectSeq(accounts, LAMBDA a : a.slot # 0),
                LAMBDA a : [pubkey |-> a.pubkey, obligation |-> a.obligation])

\* SolendRpcClient::get_obligations on the scanned accounts
get_obligations(accounts) ==
    MapSeq(SelectSeq(accounts, LAMBDA a : ParsesAsObligation(a) /\ a.slot # 0),
           LAMBDA a : [pubkey |-> a.pubkey, obligation |-> a.obligation])

\* what one account of market 1 may look like in a scan: any obligation of
\* the pool, an account one byte short, an account never written (slot 0)
RawAccountChoices(k) ==
    {RawAccount(k, OBLIGATION_SIZE, 1, ObligationPool[i]) : i \in 1..Len(ObligationPool)}
    \cup {RawAccount(k, OBLIGATION_SIZE - 1, 1, ObligationPool[1]),
          RawAccount(k, OBLIGATION_SIZE, 0, ObligationPool[1])}

\* the scans of market 1 that find one account
SingleScans == {<<a>> : a \in RawAccountChoices(101)}

\* every result the filtered program-account scan of market 1 may have
AllScans ==
    {<<a, b>> : a \in RawAccountChoices(101), b \in RawAccountChoices(102)}
    \cup SingleScans

\* a scan of market 1 that finds two healthy obligations
HealthyScans ==
    {<< RawAccount(101, OBLIGATION_SIZE, 1, ObligationPool[2]),
        RawAccount(102, OBLIGATION_SIZE, 1, ObligationPool[3]) >>}

\* the results of the filtered program-account scan of market m; the even
\* markets other than market 1 hold one empty obligation, the odd ones none
ScanChoices(m, market1) ==
    IF m = 1
    THEN (IF market1 = "healthy" THEN HealthyScans
          ELSE IF market1 = "single" THEN SingleScans ELSE AllScans)
    ELSE IF m % 2 = 0
    THEN {<<RawAccount(110 + m, OBLIGATION_SIZE, 1, Obligation(m, << >>, << >>))>>}
    ELSE {<< >>}

\* get_wallet_token_balance: the balance the RPC reports, 0 when the RPC call
\* fails, an error when the reported amount does not parse as u64
get_wallet_token_balance(balances, mint) ==
    { [ok |-> TRUE, base |-> balances[mint]],
      [ok |-> TRUE, base |-> 0],
      [ok |-> FALSE, base |-> 0] }

\* get_wallet_token_balances_batched(...).await.unwrap_or_default()
get_wallet_token_balances_batched(balances, mints) ==
    { [mint \in mints |-> balances[mint]], EmptyMap }

\* ------------------------------------------------------------------------
\* State
\* ------------------------------------------------------------------------
VARIABLES
    markets,          \* the catalog fetched at startup (market addresses)
    dry_run,          \* Args.dry_run
    targets,          \* TRUE iff config.targets is not empty
    scans,            \* what a scan of market 1 may find in this run: "any" or "healthy"
    main_pc,          \* main: position in the epoch loop
    overall_metrics,  \* main: the per-epoch accumulator
    permits,          \* free permits of the semaphore
    task,             \* per market: the spawned task and its locals
    event,            \* per market: the last thing its retry loop did
    wallet,           \* raw balance of the wallet per mint, on chain
    inflight,         \* per market: transactions sent and not yet resolved
    cache,            \* a Cache<K, V>: its data (key -> value, timestamp) and its ttl
    now,              \* the monotonic clock Instant::now() reads
    inserted,         \* per key whose last operation was an insert: what and when
    decode_in,        \* the last call of a decoder or of the scan: its name and input
    decode_out        \* what that call returned

cache_vars == << cache, now, inserted >>

decode_vars == << decode_in, decode_out >>

vars == << markets, dry_run, targets, scans, main_pc,
           overall_metrics, permits, task, event, wallet, inflight, cache_vars, decode_vars >>

\* no decoder has been called yet
NoCall == [op |-> "none"]

\* Cache::new(ttl_seconds)
CacheNew(ttl_seconds) == [ data |-> EmptyMap, ttl |-> ttl_seconds ]

ZeroMetrics ==
    [ total_obligations |-> 0, unhealthy_obligations |-> 0, liquidations_attempted |-> 0 ]

\* a task that has not been spawned; attempts and confirmed count the
\* iterations and the confirmed submissions of the current obligation
IdleTask ==
    [ pc |-> "idle", result |-> NoneVal, oracle_data |-> EmptyMap,
      reserves_map |-> EmptyMap, unhealthy |-> << >>, wallet_balances |-> EmptyMap,
      idx |-> 0, obligation |-> NoneVal, refreshed |-> NoneVal,
      metrics |-> ZeroMetrics, attempts |-> 0, confirmed |-> 0 ]

Finished(result) == [IdleTask EXCEPT !.pc = "done", !.result = result]

OkResult(metrics) == [kind |-> "ok", metrics |-> metrics]

ErrResult(stage) == [kind |-> "err", stage |-> stage]

PanicResult == [kind |-> "panic"]

MainInitWith(ms, market1, drs, tgs, wallets) ==
    /\ markets = ms
    /\ dry_run \in drs
    /\ targets \in tgs
    /\ scans = market1
    /\ main_pc = "fanout"
    /\ overall_metrics = ZeroMetrics
    /\ permits = Permits
    /\ task = [m \in ms |-> IdleTask]
    /\ event = [m \in ms |-> "none"]
    /\ wallet \in wallets
    /\ inflight = [m \in ms |-> << >>]

\* the liquidator itself builds no Cache: the cache stays as created
InitWith(ms, market1, drs, tgs, wallets) ==
    /\ MainInitWith(ms, market1, drs, tgs, wallets)
    /\ cache = CacheNew(0)
    /\ now = 0
    /\ inserted = EmptyMap
    /\ decode_in = NoCall
    /\ decode_out = NoneVal

\* one market whose accounts may hold any obligation of the pool
Init == InitWith({1}, "any", BOOLEAN, BOOLEAN, [Mints -> 0..MaxBal])

\* one market more than there are permits; every scan finds healthy
\* obligations only
SchedMarkets == 1..(Permits + 1)

SchedInit == InitWith(SchedMarkets, "healthy", {FALSE}, {FALSE}, {[mint \in Mints |-> 1]})

\* ------------------------------------------------------------------------
\* main(): the epoch loop (main.rs:104-198)
\* ------------------------------------------------------------------------
\* a fresh accumulator and one spawned task per market (the epoch number is
\* only logged and is not part of the model)
FanOut ==
    /\ main_pc = "fanout"
    /\ overall_metrics' = ZeroMetrics
    /\ task' = [m \in markets |-> [IdleTask EXCEPT !.pc = "wait"]]
    /\ event' = [m \in markets |-> "none"]
    /\ main_pc' = "gather"
    /\ UNCHANGED << markets, dry_run, targets, scans, permits, wallet, inflight, cache_vars, decode_vars >>

\* a join that gives up waiting as soon as one task has failed
Gather_FailFast ==
    /\ main_pc = "gather"
    /\ \/ \A m \in markets : task[m].pc = "done"
       \/ \E m \in markets : task[m].pc = "done" /\ task[m].result.kind # "ok"
    /\ main_pc' = "aggregate"
    /\ UNCHANGED << markets, dry_run, targets, scans, overall_metrics,
                    permits, task, event, wallet, inflight, cache_vars, decode_vars >>

\* join_all(tasks).await returns once every task has finished
Gather ==
    /\ main_pc = "gather"
    /\ \A m \in markets : task[m].pc = "done"
    /\ main_pc' = "aggregate"
    /\ UNCHANGED << markets, dry_run, targets, scans, overall_metrics,
                    permits, task, event, wallet, inflight, cache_vars, decode_vars >>

\* the metrics of the first n markets whose task returned Ok(Ok(metrics))
RECURSIVE SumMetrics(_, _, _)
SumMetrics(tasks, n, field) ==
    IF n = 0 THEN 0
    ELSE SumMetrics(tasks, n - 1, field)
         + (IF n \in DOMAIN tasks /\ tasks[n].result # NoneVal /\ tasks[n].result.kind = "ok"
            THEN tasks[n].result.metrics[field] ELSE 0)

Aggregated(tasks, n) ==
    [ total_obligations |-> SumMetrics(tasks, n, "total_obligations"),
      unhealthy_obligations |-> SumMetrics(tasks, n, "unhealthy_obligations"),
      liquidations_attempted |-> SumMetrics(tasks, n, "liquidations_attempted") ]

\* a fold that assigns where it should add: the last Ok(Ok(metrics)) wins
Aggregate_LastWins ==
    /\ main_pc = "aggregate"
    /\ LET ok == {m \in markets : task[m].result # NoneVal /\ task[m].result.kind = "ok"}
       IN  overall_metrics' =
              IF ok = {} THEN overall_metrics
              ELSE task[CHOOSE m \in ok : \A o \in ok : o <= m].result.metrics
    /\ main_pc' = "unwrap"
    /\ UNCHANGED << markets, dry_run, targets, scans, permits, task,
                    event, wallet, inflight, cache_vars, decode_vars >>

\* the fold over the results: Ok(Ok(metrics)) is added, errors are logged
Aggregate ==
    /\ main_pc = "aggregate"
    /\ overall_metrics' = Aggregated(task, Cardinality(markets))
    /\ main_pc' = "unwrap"
    /\ UNCHANGED << markets, dry_run, targets, scans, permits, task,
                    event, wallet, inflight, cache_vars, decode_vars >>

\* a post-processing that leaves out the rebalance step
Unwrap_SkipsRebalance ==
    /\ main_pc = "unwrap"
    /\ main_pc' = "sleep"
    /\ UNCHANGED << markets, dry_run, targets, scans, overall_metrics,
                    permits, task, event, wallet, inflight, cache_vars, decode_vars >>

\* unwrap_all_wrapped_tokens: an error is only logged
Unwrap ==
    /\ main_pc = "unwrap"
    /\ main_pc' = "rebalance"
    /\ UNCHANGED << markets, dry_run, targets, scans, overall_metrics,
                    permits, task, event, wallet, inflight, cache_vars, decode_vars >>

\* rebalance_wallet when targets are configured: swaps move the balances, an
\* error is only logged
Rebalance ==
    /\ main_pc = "rebalance"
    /\ IF targets THEN wallet' \in [Mints -> 0..MaxBal] ELSE wallet' = wallet
    /\ main_pc' = "sleep"
    /\ UNCHANGED << markets, dry_run, targets, scans, overall_metrics,
                    permits, task, event, inflight, cache_vars, decode_vars >>

\* log_summary, the throttle sleep, and back to the top of the loop
Sleep ==
    /\ main_pc = "sleep"
    /\ main_pc' = "fanout"
    /\ UNCHANGED << markets, dry_run, targets, scans, overall_metrics,
                    permits, task, event, wallet, inflight, cache_vars, decode_vars >>

\* ------------------------------------------------------------------------
\* The spawned task (main.rs:121-131) and process_market (main.rs:201-382)
\* ------------------------------------------------------------------------
\* a task that starts without waiting for a free permit
Acquire_NoWait(m) ==
    /\ task[m].pc = "wait"
    /\ permits' = permits - 1
    /\ task' = [task EXCEPT ![m].pc = "fetch"]
    /\ UNCHANGED << markets, dry_run, targets, scans, main_pc,
                    overall_metrics, event, wallet, inflight, cache_vars, decode_vars >>

\* semaphore.acquire().await
Acquire(m) ==
    /\ task[m].pc = "wait"
    /\ permits > 0
    /\ permits' = permits - 1
    /\ task' = [task EXCEPT ![m].pc = "fetch"]
    /\ UNCHANGED << markets, dry_run, targets, scans, main_pc,
                    overall_metrics, event, wallet, inflight, cache_vars, decode_vars >>

\* a task whose permit is forgotten and never returned to the semaphore
Return_KeepsPermit(m, result) ==
    /\ task' = [task EXCEPT ![m] = Finished(result)]
    /\ permits' = IF result.kind = "ok" THEN permits + 1 ELSE permits

\* the task ends: its result reaches the JoinHandle and _permit is dropped
Return(m, result) ==
    /\ task' = [task EXCEPT ![m] = Finished(result)]
    /\ permits' = permits + 1

\* one of the three fetches returned an error (main.rs:224-237)
FetchFail(m) ==
    /\ task[m].pc = "fetch"
    /\ m <= MaxFlaky
    /\ Return(m, ErrResult("fetch"))
    /\ UNCHANGED << markets, dry_run, targets, scans, main_pc,
                    overall_metrics, event, wallet, inflight, cache_vars, decode_vars >>

\* parse_price_from_account slices data[208..216] before it checks the
\* length: an oracle account of 200..219 bytes makes the task panic
FetchPanic(m) ==
    /\ task[m].pc = "fetch"
    /\ m <= MaxFlaky
    /\ MarketConfig(m).reserves # << >>
    /\ Return(m, PanicResult)
    /\ UNCHANGED << markets, dry_run, targets, scans, main_pc,
                    overall_metrics, event, wallet, inflight, cache_vars, decode_vars >>

\* the filter of main.rs:245-259
UnhealthyObligations(obligations, reserves, oracle_data) ==
    SelectSeq(MapSeq(obligations, LAMBDA o :
                  [ pubkey |-> o.pubkey, obligation |-> o.obligation,
                    refreshed |-> calculate_refreshed_obligation(o.obligation, reserves, oracle_data) ]),
              LAMBDA u : is_unhealthy(u.refreshed))

\* the three fetches succeeded and no obligation is unhealthy (main.rs:261-264)
FetchHealthy(m) ==
    /\ task[m].pc = "fetch"
    /\ \E oracle_data \in OracleChoices(m), accounts \in ScanChoices(m, scans) :
          LET obligations == get_obligations(accounts)
              unhealthy == UnhealthyObligations(obligations, ReservesOf(m), oracle_data)
          IN  /\ unhealthy = << >>
              /\ Return(m, OkResult([ZeroMetrics EXCEPT !.total_obligations = Len(obligations)]))
    /\ UNCHANGED << markets, dry_run, targets, scans, main_pc,
                    overall_metrics, event, wallet, inflight, cache_vars, decode_vars >>

\* the three fetches succeeded and some obligation is unhealthy
FetchUnhealthy(m) ==
    /\ task[m].pc = "fetch"
    /\ \E oracle_data \in OracleChoices(m), accounts \in ScanChoices(m, scans) :
          LET obligations == get_obligations(accounts)
              unhealthy == UnhealthyObligations(obligations, ReservesOf(m), oracle_data)
          IN  /\ unhealthy # << >>
              /\ task' = [task EXCEPT ![m] =
                    [@ EXCEPT !.pc = "balances",
                              !.oracle_data = oracle_data,
                              !.reserves_map = ReservesOf(m),
                              !.unhealthy = unhealthy,
                              !.metrics = [ZeroMetrics EXCEPT
                                              !.total_obligations = Len(obligations),
                                              !.unhealthy_obligations = Len(unhealthy)]]]
    /\ UNCHANGED << markets, dry_run, targets, scans, main_pc,
                    overall_metrics, permits, event, wallet, inflight, cache_vars, decode_vars >>

\* the mints of the borrows select_repay_borrow picks (main.rs:279-285)
NeededMints(unhealthy) ==
    {select_repay_borrow(unhealthy[i].refreshed).mint_address :
        i \in {j \in 1..Len(unhealthy) : select_repay_borrow(unhealthy[j].refreshed) # NoneVal}}

\* for (obligation_pubkey, mut obligation, mut refreshed) in unhealthy_obligations
LoadObligation(t, i) ==
    [t EXCEPT !.pc = "loop", !.idx = i, !.obligation = t.unhealthy[i].obligation,
              !.refreshed = t.unhealthy[i].refreshed, !.attempts = 0, !.confirmed = 0]

\* the batched balance lookup (main.rs:269-297) and the entry of the for loop
BatchBalances(m) ==
    /\ task[m].pc = "balances"
    /\ LET needed_mints == NeededMints(task[m].unhealthy)
       IN  \E wallet_balances \in
                 (IF needed_mints # {}
                  THEN get_wallet_token_balances_batched(wallet, needed_mints)
                  ELSE {EmptyMap}) :
              task' = [task EXCEPT ![m] =
                          LoadObligation([@ EXCEPT !.wallet_balances = wallet_balances], 1)]
    /\ UNCHANGED << markets, dry_run, targets, scans, main_pc,
                    overall_metrics, permits, event, wallet, inflight, cache_vars, decode_vars >>

\* ------------------------------------------------------------------------
\* The retry loop of one unhealthy obligation (main.rs:300-377)
\* ------------------------------------------------------------------------
\* break: on to the next unhealthy obligation, or Ok(metrics) after the last
Break(m, t) ==
    IF t.idx < Len(t.unhealthy)
    THEN /\ task' = [task EXCEPT ![m] = LoadObligation(t, t.idx + 1)]
         /\ permits' = permits
    ELSE Return(m, OkResult(t.metrics))

\* metrics.liquidations_attempted += 1
Attempted(t) ==
    [t EXCEPT !.metrics.liquidations_attempted = Bump(@), !.attempts = Bump(@)]

\* main.rs:323-338: the batched balance when the map has the mint, else the
\* single lookup
LookupBalance(t, balances, mint) ==
    IF mint \in DOMAIN t.wallet_balances
    THEN {[ok |-> TRUE, base |-> t.wallet_balances[mint]]}
    ELSE get_wallet_token_balance(balances, mint)

HasCandidates(refreshed) ==
    /\ select_repay_borrow(refreshed) # NoneVal
    /\ select_withdraw_deposit(refreshed) # NoneVal

\* main.rs:302-304
LoopHealthy(m) ==
    /\ task[m].pc = "loop"
    /\ ~is_unhealthy(task[m].refreshed)
    /\ Break(m, task[m])
    /\ event' = [event EXCEPT ![m] = "healthy"]
    /\ UNCHANGED << markets, dry_run, targets, scans, main_pc,
                    overall_metrics, wallet, inflight, cache_vars, decode_vars >>

\* main.rs:308-316
LoopNoCandidate(m) ==
    /\ task[m].pc = "loop"
    /\ is_unhealthy(task[m].refreshed)
    /\ ~HasCandidates(task[m].refreshed)
    /\ Break(m, Attempted(task[m]))
    /\ event' = [event EXCEPT ![m] = "no_candidate"]
    /\ UNCHANGED << markets, dry_run, targets, scans, main_pc,
                    overall_metrics, wallet, inflight, cache_vars, decode_vars >>

\* main.rs:332-337: get_wallet_token_balance(...)? returns the error from
\* process_market
LoopBalanceError(m) ==
    /\ task[m].pc = "loop"
    /\ is_unhealthy(task[m].refreshed)
    /\ HasCandidates(task[m].refreshed)
    /\ \E b \in LookupBalance(task[m], wallet,
                              select_repay_borrow(task[m].refreshed).mint_address) :
          ~b.ok
    /\ Return(m, ErrResult("balance"))
    /\ event' = [event EXCEPT ![m] = "balance_error"]
    /\ UNCHANGED << markets, dry_run, targets, scans, main_pc,
                    overall_metrics, wallet, inflight, cache_vars, decode_vars >>

\* a loop that counts the attempt only after the balance check
LoopInsufficient_NotCounted(m) ==
    /\ task[m].pc = "loop"
    /\ is_unhealthy(task[m].refreshed)
    /\ HasCandidates(task[m].refreshed)
    /\ \E b \in LookupBalance(task[m], wallet,
                              select_repay_borrow(task[m].refreshed).mint_address) :
          b.ok /\ b.base = 0
    /\ Break(m, task[m])
    /\ event' = [event EXCEPT ![m] = "zero_balance"]
    /\ UNCHANGED << markets, dry_run, targets, scans, main_pc,
                    overall_metrics, wallet, inflight, cache_vars, decode_vars >>

\* main.rs:340-343
LoopInsufficient(m) ==
    /\ task[m].pc = "loop"
    /\ is_unhealthy(task[m].refreshed)
    /\ HasCandidates(task[m].refreshed)
    /\ \E b \in LookupBalance(task[m], wallet,
                              select_repay_borrow(task[m].refreshed).mint_address) :
          b.ok /\ b.base = 0
    /\ Break(m, Attempted(task[m]))
    /\ event' = [event EXCEPT ![m] = "zero_balance"]
    /\ UNCHANGED << markets, dry_run, targets, scans, main_pc,
                    overall_metrics, wallet, inflight, cache_vars, decode_vars >>

\* the instruction lists liquidate_and_redeem may build for the task's
\* current obligation with the amount balance_base
Assemblies(m, t, balance_base) ==
    { AssembleInstructions(order, Wallet, balance_base,
                           select_repay_borrow(t.refreshed).symbol,
                           select_withdraw_deposit(t.refreshed).symbol,
                           MarketConfig(m), t.obligation) :
        order \in IterationOrders(UniqueReserves(t.obligation)) }

\* liquidate_and_redeem returns an error before anything is sent: assembly
\* fails, or get_latest_blockhash fails (main.rs:371-374)
LoopCallError(m) ==
    /\ task[m].pc = "loop"
    /\ is_unhealthy(task[m].refreshed)
    /\ HasCandidates(task[m].refreshed)
    /\ \E b \in LookupBalance(task[m], wallet,
                              select_repay_borrow(task[m].refreshed).mint_address) :
          b.ok /\ b.base # 0
    /\ Break(m, Attempted(task[m]))
    /\ event' = [event EXCEPT ![m] = "error"]
    /\ UNCHANGED << markets, dry_run, targets, scans, main_pc,
                    overall_metrics, wallet, inflight, cache_vars, decode_vars >>

\* a send that does not wait for the confirmation (send_transaction)
LoopSend_NoWait(m) ==
    /\ task[m].pc = "loop"
    /\ is_unhealthy(task[m].refreshed)
    /\ HasCandidates(task[m].refreshed)
    /\ \E b \in LookupBalance(task[m], wallet,
                              select_repay_borrow(task[m].refreshed).mint_address) :
          /\ b.ok /\ b.base # 0
          /\ \E a \in Assemblies(m, task[m], b.base) :
                /\ a.ok
                /\ inflight' = [inflight EXCEPT ![m] = Append(@, a.instructions)]
    /\ task' = [task EXCEPT ![m] = [Attempted(@) EXCEPT !.pc = "reread"]]
    /\ event' = [event EXCEPT ![m] = "sent"]
    /\ UNCHANGED << markets, dry_run, targets, scans, main_pc,
                    overall_metrics, permits, wallet, cache_vars, decode_vars >>

\* liquidate_and_redeem assembles the transaction and sends it; the call
\* then waits in send_and_confirm_transaction (execute.rs:141-147)
LoopSend(m) ==
    /\ task[m].pc = "loop"
    /\ is_unhealthy(task[m].refreshed)
    /\ HasCandidates(task[m].refreshed)
    /\ \E b \in LookupBalance(task[m], wallet,
                              select_repay_borrow(task[m].refreshed).mint_address) :
          /\ b.ok /\ b.base # 0
          /\ \E a \in Assemblies(m, task[m], b.base) :
                /\ a.ok
                /\ inflight' = [inflight EXCEPT ![m] = Append(@, a.instructions)]
    /\ task' = [task EXCEPT ![m] = [Attempted(@) EXCEPT !.pc = "confirm"]]
    /\ event' = [event EXCEPT ![m] = "sent"]
    /\ UNCHANGED << markets, dry_run, targets, scans, main_pc,
                    overall_metrics, permits, wallet, cache_vars, decode_vars >>

\* the liquidate instruction of a transaction, its amount and its repay mint
LiquidateIx(tx) == tx[Len(tx)]

RefreshObligationIx(tx) == tx[Len(tx) - 1]

TxAmount(tx) ==
    LET d == LiquidateIx(tx).data IN d[2] + 256 * d[3] + 65536 * d[4] + 16777216 * d[5]

TxRepayMint(tx) == LiquidateIx(tx).accounts[4].pubkey - 1000

\* the transaction is confirmed: the program took part of the repay balance
\* and paid redeemed collateral into the wallet; Ok(()) (main.rs:356-357)
ConfirmOk(m) ==
    /\ task[m].pc = "confirm"
    /\ inflight[m] # << >>
    /\ LET tx == Head(inflight[m])
           repay == TxRepayMint(tx)
       IN  \E taken \in 1..Min(wallet[repay], TxAmount(tx)), gain \in 0..1 :
              \E withdrawn \in Mints \ {repay} :
                 /\ wallet[withdrawn] + gain <= MaxBal
                 /\ wallet' = [wallet EXCEPT ![repay] = @ - taken,
                                             ![withdrawn] = @ + gain]
    /\ inflight' = [inflight EXCEPT ![m] = Tail(@)]
    /\ task' = [task EXCEPT ![m] = [@ EXCEPT !.pc = "reread", !.confirmed = Bump(@)]]
    /\ event' = [event EXCEPT ![m] = "confirmed"]
    /\ UNCHANGED << markets, dry_run, targets, scans, main_pc,
                    overall_metrics, permits, cache_vars, decode_vars >>

\* a loop that retries the obligation after a failed submission
ConfirmErr_Retry(m) ==
    /\ task[m].pc = "confirm"
    /\ inflight[m] # << >>
    /\ inflight' = [inflight EXCEPT ![m] = Tail(@)]
    /\ task' = [task EXCEPT ![m].pc = "loop"]
    /\ event' = [event EXCEPT ![m] = "rejected"]
    /\ UNCHANGED << markets, dry_run, targets, scans, main_pc,
                    overall_metrics, permits, wallet, cache_vars, decode_vars >>

\* the transaction is rejected or not confirmed: Err(e) (main.rs:371-374)
ConfirmErr(m) ==
    /\ task[m].pc = "confirm"
    /\ inflight[m] # << >>
    /\ inflight' = [inflight EXCEPT ![m] = Tail(@)]
    /\ Break(m, task[m])
    /\ event' = [event EXCEPT ![m] = "rejected"]
    /\ UNCHANGED << markets, dry_run, targets, scans, main_pc,
                    overall_metrics, wallet, cache_vars, decode_vars >>

\* a loop that goes on with the view it had before the submission
RereadFail_KeepsView(m) ==
    /\ task[m].pc = "reread"
    /\ task' = [task EXCEPT ![m].pc = "loop"]
    /\ permits' = permits
    /\ event' = [event EXCEPT ![m] = "reread_failed"]
    /\ UNCHANGED << markets, dry_run, targets, scans, main_pc,
                    overall_metrics, wallet, inflight, cache_vars, decode_vars >>

\* get_account fails, the account does not parse or its health cannot be
\* recomputed (main.rs:363-368)
RereadFail(m) ==
    /\ task[m].pc = "reread"
    /\ Break(m, task[m])
    /\ event' = [event EXCEPT ![m] = "reread_failed"]
    /\ UNCHANGED << markets, dry_run, targets, scans, main_pc,
                    overall_metrics, wallet, inflight, cache_vars, decode_vars >>

\* a re-read that also fetches the oracle prices again
RereadOk_RefetchesOracle(m) ==
    /\ task[m].pc = "reread"
    /\ \E k \in 1..Len(ObligationPool), oracle_data \in OracleChoices(m) :
          task' = [task EXCEPT ![m] =
                      [@ EXCEPT !.pc = "loop",
                                !.obligation = ObligationPool[k],
                                !.oracle_data = oracle_data,
                                !.refreshed = calculate_refreshed_obligation(
                                    ObligationPool[k], task[m].reserves_map, oracle_data)]]
    /\ event' = [event EXCEPT ![m] = "reread"]
    /\ UNCHANGED << markets, dry_run, targets, scans, main_pc,
                    overall_metrics, permits, wallet, inflight, cache_vars, decode_vars >>

\* the obligation account is read again and its health recomputed from the
\* task's reserve map and oracle map (main.rs:359-364)
RereadOk(m) ==
    /\ task[m].pc = "reread"
    /\ \E k \in 1..Len(ObligationPool) :
          task' = [task EXCEPT ![m] =
                      [@ EXCEPT !.pc = "loop",
                                !.obligation = ObligationPool[k],
                                !.refreshed = calculate_refreshed_obligation(
                                    ObligationPool[k], task[m].reserves_map, task[m].oracle_data)]]
    /\ event' = [event EXCEPT ![m] = "reread"]
    /\ UNCHANGED << markets, dry_run, targets, scans, main_pc,
                    overall_metrics, permits, wallet, inflight, cache_vars, decode_vars >>

\* somebody transfers tokens into one of the wallet's token accounts; the
\* balance the chain reports (balance.rs:27-32) is not under the program's
\* control
WalletDeposit ==
    /\ \E mint \in Mints :
          /\ wallet[mint] < MaxBal
          /\ wallet' = [wallet EXCEPT ![mint] = @ + 1]
    /\ UNCHANGED << markets, dry_run, targets, scans, main_pc,
                    overall_metrics, permits, task, event, inflight, cache_vars, decode_vars >>

\* ------------------------------------------------------------------------
\* Specifications
\* ------------------------------------------------------------------------
Next ==
    \/ FanOut
    \/ Gather
    \/ Aggregate
    \/ Unwrap
    \/ Rebalance
    \/ Sleep
    \/ \E m \in markets : Acquire(m)
    \/ \E m \in markets : FetchFail(m)
    \/ \E m \in markets : FetchPanic(m)
    \/ \E m \in markets : FetchHealthy(m)
    \/ \E m \in markets : FetchUnhealthy(m)
    \/ \E m \in markets : BatchBalances(m)
    \/ \E m \in markets : LoopHealthy(m)
    \/ \E m \in markets : LoopNoCandidate(m)
    \/ \E m \in markets : LoopBalanceError(m)
    \/ \E m \in markets : LoopInsufficient(m)
    \/ \E m \in markets : LoopCallError(m)
    \/ \E m \in markets : LoopSend(m)
    \/ \E m \in markets : ConfirmOk(m)
    \/ \E m \in markets : ConfirmErr(m)
    \/ \E m \in markets : RereadFail(m)
    \/ \E m \in markets : RereadOk(m)

\* one market, any obligation on chain
Spec == Init /\ [][Next]_vars

\* the runtime keeps polling a task that can make a step, the chain answers
\* every request, and main() runs whenever it is not waiting
\* one market with one obligation account, and a wallet that also receives
\* transfers; the run never stops while a step is possible: the tokio runtime
\* keeps polling the tasks and main()
FairInit == InitWith({1}, "single", {FALSE}, {FALSE}, {[mint \in Mints |-> 0]})

FairNext == Next \/ WalletDeposit

FairSpec == FairInit /\ [][FairNext]_vars /\ WF_vars(FairNext)

\* two markets in one epoch: market 1 with any obligations, market 2 with one
\* empty obligation
PairInit == InitWith({1, 2}, "any", {FALSE}, BOOLEAN, {[mint \in Mints |-> 1]})

PairSpec == PairInit /\ [][Next]_vars

\* ------------------------------------------------------------------------
\* The TTL cache (cache.rs)
\* ------------------------------------------------------------------------
CacheKeys == {"k1", "k2"}

CacheValues == {"v1", "v2"}

\* a get that still answers at exactly ttl
Cache_get_Inclusive(c, instant, key) ==
    IF key \in DOMAIN c.data /\ instant - c.data[key].timestamp <= c.ttl
    THEN [some |-> c.data[key].value]
    ELSE NoneVal

\* Cache::get at the instant `instant`: timestamp.elapsed() < self.ttl
Cache_get(c, instant, key) ==
    IF key \in DOMAIN c.data /\ instant - c.data[key].timestamp < c.ttl
    THEN [some |-> c.data[key].value]
    ELSE NoneVal

main_vars == << markets, dry_run, targets, scans, main_pc,
               overall_metrics, permits, task, event, wallet, inflight >>

\* Cache::insert: self.data.insert(key, (value, Instant::now()))
Cache_insert(key, value) ==
    /\ cache' = [cache EXCEPT !.data =
                    [k \in DOMAIN @ \cup {key} |->
                        IF k = key THEN [value |-> value, timestamp |-> now] ELSE @[k]]]
    /\ inserted' = [k \in DOMAIN inserted \cup {key} |->
                        IF k = key THEN [value |-> value, at |-> now] ELSE inserted[k]]
    /\ UNCHANGED << main_vars, decode_vars, now >>

\* Cache::remove
Cache_remove(key) ==
    /\ cache' = [cache EXCEPT !.data = [k \in DOMAIN @ \ {key} |-> @[k]]]
    /\ inserted' = [k \in DOMAIN inserted \ {key} |-> inserted[k]]
    /\ UNCHANGED << main_vars, decode_vars, now >>

\* Cache::clear
Cache_clear ==
    /\ cache' = [cache EXCEPT !.data = EmptyMap]
    /\ inserted' = EmptyMap
    /\ UNCHANGED << main_vars, decode_vars, now >>

\* time passes: Instant is monotonic
Tick ==
    /\ now < MaxClock
    /\ now' = now + 1
    /\ UNCHANGED << main_vars, decode_vars, cache, inserted >>

\* a cache of any ttl, empty, and the operations on it in any order
CacheInit ==
    /\ MainInitWith({1}, "healthy", {FALSE}, {FALSE}, {[mint \in Mints |-> 0]})
    /\ cache \in {CacheNew(ttl_seconds) : ttl_seconds \in 0..MaxTtl}
    /\ now = 0
    /\ inserted = EmptyMap
    /\ decode_in = NoCall
    /\ decode_out = NoneVal

CacheNext ==
    \/ \E key \in CacheKeys, value \in CacheValues : Cache_insert(key, value)
    \/ \E key \in CacheKeys : Cache_remove(key)
    \/ Cache_clear
    \/ Tick

CacheSpec == CacheInit /\ [][CacheNext]_vars

\* ------------------------------------------------------------------------
\* The decoders on their own (models/reserve.rs, models/obligation.rs, rpc.rs)
\* ------------------------------------------------------------------------
\* the lengths of account data tried: one byte short, exact, one byte long
DataLens(size) == {size - 1, size, size + 1}

\* the bytes handed to Reserve::parse: their number, and the reserve their
\* first RESERVE_SIZE bytes encode
RawReserve(len, reserve) == [ len |-> len, reserve |-> reserve ]

\* Reserve::parse: an error when data.len() < RESERVE_SIZE, else the Borsh
\* decoding of the front of the data, which leaves trailing bytes unread
Reserve_parse(data) ==
    IF data.len < RESERVE_SIZE
    THEN [err |-> "Invalid reserve data size"]
    ELSE [ok |-> data.reserve]

\* Obligation::parse: an error when data.len() < OBLIGATION_SIZE, else the
\* fields read front to back, which leaves trailing bytes unread
Obligation_parse(account) ==
    IF account.len < OBLIGATION_SIZE
    THEN [err |-> "Invalid obligation data size"]
    ELSE [ok |-> account.obligation]

\* one call of Reserve::parse
ParseReserve ==
    /\ \E len \in DataLens(RESERVE_SIZE), r \in DOMAIN ChainReserves :
          LET data == RawReserve(len, ChainReserves[r])
          IN  /\ decode_in' = [op |-> "Reserve::parse", arg |-> data]
              /\ decode_out' = Reserve_parse(data)
    /\ UNCHANGED << main_vars, cache_vars >>

\* one call of Obligation::parse
ParseObligation ==
    /\ \E len \in DataLens(OBLIGATION_SIZE), i \in 1..Len(ObligationPool) :
          LET account == RawAccount(101, len, 1, ObligationPool[i])
          IN  /\ decode_in' = [op |-> "Obligation::parse", arg |-> account]
              /\ decode_out' = Obligation_parse(account)
    /\ UNCHANGED << main_vars, cache_vars >>

\* one call of get_obligations whose program-account scan succeeded
ScanObligations ==
    /\ \E accounts \in AllScans :
          /\ decode_in' = [op |-> "get_obligations", arg |-> accounts]
          /\ decode_out' = get_obligations(accounts)
    /\ UNCHANGED << main_vars, cache_vars >>

\* ------------------------------------------------------------------------
\* The oracle reader on its own (oracle/mod.rs, oracle/pyth.rs)
\* ------------------------------------------------------------------------
\* pyth.rs:11, the sentinel address
NULL_ORACLE == 0

\* an oracle address of the catalog that Pubkey::from_str rejects
MalformedAddress == -1

\* a thread that panicked instead of returning
PanicVal == [panic |-> TRUE]

\* an oracle account: the length of its data, the i64 at offset 208 and the
\* i32 at offset 216
PythAccount(len, price_i64, expo) == [ len |-> len, price_i64 |-> price_i64, expo |-> expo ]

RECURSIVE Pow10(_)
Pow10(n) == IF n = 0 THEN 1 ELSE 10 * Pow10(n - 1)

\* parse_price_from_account: the slices data[208..216] and data[216..220] are
\* taken after the check against 200 and before the check against 220, and
\* slicing past the end of the data panics in every build
parse_price_from_account(account) ==
    IF account.len < 200
    THEN [err |-> "Invalid Pyth account data size"]
    ELSE IF account.len < 220
    THEN PanicVal
    ELSE LET final_price == IF account.expo < 0
                            THEN Rat(account.price_i64, Pow10(0 - account.expo))
                            ELSE Rat(account.price_i64 * Pow10(account.expo), 1)
         IN  IF final_price[1] < 0
             THEN [err |-> "Invalid negative price from Pyth oracle"]
             ELSE [ok |-> final_price]

\* unsigned numbers of any size as little-endian sequences of 16-bit limbs
Limb == 65536

\* ten times the number, plus carry
RECURSIVE TimesTen(_, _)
TimesTen(limbs, carry) ==
    IF limbs = << >>
    THEN (IF carry = 0 THEN << >> ELSE <<carry>>)
    ELSE <<(Head(limbs) * 10 + carry) % Limb>>
            \o TimesTen(Tail(limbs), (Head(limbs) * 10 + carry) \div Limb)

\* the mathematical value 10^n
RECURSIVE Pow10Exact(_)
Pow10Exact(n) == IF n = 0 THEN <<1>> ELSE TimesTen(Pow10Exact(n - 1), 0)

\* a u32: the number modulo 2^32, as exactly two limbs
AsU32(limbs) == [i \in 1..2 |-> IF i <= Len(limbs) THEN limbs[i] ELSE 0]

\* the number is below 2^32
FitsU32(limbs) == \A i \in 1..Len(limbs) : i > 2 => limbs[i] = 0

\* 10u32.pow(exp): an overflow panics in a build with overflow checks and
\* wraps modulo 2^32 in a build without them
pow10_u32(exp, overflow_checks) ==
    IF FitsU32(Pow10Exact(exp)) \/ ~overflow_checks
    THEN [ok |-> AsU32(Pow10Exact(exp))]
    ELSE PanicVal

\* the oracle address the first loop of get_tokens_oracle_data selects
SelectedOracle(reserve) ==
    IF reserve.pyth_oracle # NULL_ORACLE THEN reserve.pyth_oracle
    ELSE IF reserve.switchboard_oracle # NULL_ORACLE THEN reserve.switchboard_oracle
    ELSE NULL_ORACLE

\* oracle_requests: the reserves, in catalog order, that have an oracle whose
\* address parses
oracle_requests(reserves) ==
    SelectSeq(reserves, LAMBDA r : SelectedOracle(r) # NULL_ORACLE
                                   /\ SelectedOracle(r) # MalformedAddress)

\* the third loop of get_tokens_oracle_data over the requests left, with the
\* map built so far
RECURSIVE ParseOracleResults(_, _, _, _)
ParseOracleResults(requests, accounts, overflow_checks, oracle_data) ==
    IF requests = << >> THEN [ok |-> oracle_data]
    ELSE LET reserve == Head(requests)
             account_opt == accounts[SelectedOracle(reserve)]
             rest(map) == ParseOracleResults(Tail(requests), accounts, overflow_checks, map)
         IN  IF account_opt = NoneVal \/ reserve.pyth_oracle = NULL_ORACLE
             THEN rest(oracle_data)
             ELSE LET price == parse_price_from_account(account_opt)
                      decimals == pow10_u32(reserve.decimals, overflow_checks)
                  IN  IF price = PanicVal THEN PanicVal
                      ELSE IF "err" \in DOMAIN price THEN rest(oracle_data)
                      ELSE IF decimals = PanicVal THEN PanicVal
                      ELSE rest([k \in DOMAIN oracle_data \cup {reserve.symbol} |->
                                   IF k = reserve.symbol
                                   THEN TokenOracleData(reserve.symbol, reserve.mint,
                                                        decimals.ok, price.ok)
                                   ELSE oracle_data[k]])

\* get_tokens_oracle_data: accounts is what the batched read returns per
\* address (NoneVal for a missing account), rpc_ok whether the read succeeded
get_tokens_oracle_data(reserves, accounts, rpc_ok, overflow_checks) ==
    IF oracle_requests(reserves) = << >> THEN [ok |-> EmptyMap]
    ELSE IF ~rpc_ok THEN [err |-> "rpc"]
    ELSE ParseOracleResults(oracle_requests(reserves), accounts, overflow_checks, EmptyMap)

\* the oracle accounts found on chain: around the two length checks, and of
\* full length with a negative, zero or positive price and either sign of
\* the exponent; and those tried in a fetch, where the account may be missing
PythAccountsFound ==
    {PythAccount(len, 5, -1) : len \in {199, 200, 219, 220, 221}}
    \cup {PythAccount(220, price_i64, expo) : price_i64 \in {-1, 0, 5}, expo \in {-1, 0, 1}}

PythAccountsTried == {NoneVal} \cup PythAccountsFound

\* the decimals of a liquidity token tried (a u8 of the catalog)
DecimalsTried == {0, 6, 9, 10, 18}

\* a reserve of the catalog with its oracle addresses and decimals, and the
\* account the chain holds at its selected oracle address
OracleCase(reserve, pyth, switchboard, decimals, account) ==
    [ reserve |-> [reserve EXCEPT !.pyth_oracle = pyth,
                                  !.switchboard_oracle = switchboard,
                                  !.decimals = decimals],
      account |-> account ]

\* what reserve A may look like: a sound reserve, varied in its oracle
\* addresses, in its decimals, or in its oracle account
OracleCasesA ==
    LET A == MarketConfigReserve(201, "A", 301)
        sound == PythAccount(220, 5, -1)
    IN  {OracleCase(A, pyth, switchboard, 6, sound) :
            pyth \in {NULL_ORACLE, 901, MalformedAddress}, switchboard \in {NULL_ORACLE, 951}}
        \cup {OracleCase(A, 901, 951, decimals, sound) : decimals \in DecimalsTried}
        \cup {OracleCase(A, 901, 951, 6, account) : account \in PythAccountsTried}

\* what reserve B may look like: sound, without oracle, or without account
OracleCasesB ==
    LET B == MarketConfigReserve(202, "B", 302)
    IN  { OracleCase(B, 902, 952, 6, PythAccount(220, 20, 0)),
          OracleCase(B, NULL_ORACLE, NULL_ORACLE, 6, NoneVal),
          OracleCase(B, 902, 952, 6, NoneVal) }

\* one call of parse_price_from_account
ParsePrice ==
    /\ \E account \in PythAccountsFound :
          /\ decode_in' = [op |-> "parse_price_from_account", arg |-> account]
          /\ decode_out' = parse_price_from_account(account)
    /\ UNCHANGED << main_vars, cache_vars >>

\* one call of get_tokens_oracle_data on a market of reserves A and B, in a
\* build with or without overflow checks
FetchOracleData ==
    /\ \E a \in OracleCasesA, b \in OracleCasesB, rpc_ok \in BOOLEAN, overflow_checks \in BOOLEAN :
          LET reserves == << a.reserve, b.reserve >>
              accounts == [k \in {SelectedOracle(a.reserve), SelectedOracle(b.reserve)} |->
                              IF k = SelectedOracle(a.reserve) THEN a.account ELSE b.account]
          IN  /\ decode_in' = [op |-> "get_tokens_oracle_data",
                               arg |-> [reserves |-> reserves, accounts |-> accounts,
                                        rpc_ok |-> rpc_ok, overflow_checks |-> overflow_checks]]
              /\ decode_out' = get_tokens_oracle_data(reserves, accounts, rpc_ok, overflow_checks)
    /\ UNCHANGED << main_vars, cache_vars >>

\* ------------------------------------------------------------------------
\* Price validation (oracle/validation.rs)
\* ------------------------------------------------------------------------
\* Prices are counted in the smallest step of a Decimal. An f64 holds fewer
\* digits than a Decimal: it is modelled as a float whose mantissa has three
\* bits, so that the floats are 0..8, then every second number up to 16,
\* every fourth up to 32, every eighth up to 64.
MantissaRange == 8

\* validation.rs:7 and :10, MIN_PRICE and MAX_PRICE, both floats
MIN_PRICE == 16
MAX_PRICE == 32

\* validation.rs:13
MAX_SLOT_AGE == 300

\* the distance between neighbouring floats at and above the magnitude n
RECURSIVE FloatStep(_)
FloatStep(n) == IF n < MantissaRange THEN 1 ELSE 2 * FloatStep(n \div 2)

\* the nearest float to a non-negative number, ties to the even mantissa
RoundToFloat(n) ==
    LET step == FloatStep(n)
        below == (n \div step) * step
        above == below + step
    IN  IF n = below THEN n
        ELSE IF 2 * (n - below) < step THEN below
        ELSE IF 2 * (n - below) > step THEN above
        ELSE IF (below \div step) % 2 = 0 THEN below ELSE above

\* price.to_string().parse::<f64>()
to_f64(price) == IF price < 0 THEN 0 - RoundToFloat(0 - price) ELSE RoundToFloat(price)

\* current_slot.saturating_sub(slot)
saturating_sub(a, b) == IF a > b THEN a - b ELSE 0

\* a validation that also warns at the two bounds
validate_price_Inclusive(price, slot, current_slot) ==
    LET price_f64 == to_f64(price)
        slot_age == saturating_sub(current_slot, slot)
    IN  [ is_valid |-> ~(price_f64 <= 0),
          warnings |->
              (IF price_f64 <= 0 THEN <<"zero_or_negative">> ELSE << >>)
              \o (IF price_f64 <= MIN_PRICE THEN <<"low">> ELSE << >>)
              \o (IF price_f64 >= MAX_PRICE THEN <<"high">> ELSE << >>)
              \o (IF slot_age > MAX_SLOT_AGE THEN <<"stale">> ELSE << >>) ]

\* validate_price: the warnings in the order of the checks; a Decimal is
\* never NaN or infinite as an f64
validate_price(price, slot, current_slot) ==
    LET price_f64 == to_f64(price)
        slot_age == saturating_sub(current_slot, slot)
    IN  [ is_valid |-> ~(price_f64 <= 0),
          warnings |->
              (IF price_f64 <= 0 THEN <<"zero_or_negative">> ELSE << >>)
              \o (IF price_f64 < MIN_PRICE THEN <<"low">> ELSE << >>)
              \o (IF price_f64 > MAX_PRICE THEN <<"high">> ELSE << >>)
              \o (IF slot_age > MAX_SLOT_AGE THEN <<"stale">> ELSE << >>) ]

\* the prices tried: negative, zero, and everything up to beyond MAX_PRICE
PricesTried == -2..40

\* one call of validate_price, with a (slot, current_slot) pair that is
\* fresh, exactly MAX_SLOT_AGE old, one slot older, or ahead of the current
\* slot
ValidatePrice ==
    /\ \E price \in PricesTried,
          slots \in { <<1000, 1100>>, <<1000, 1300>>, <<1000, 1301>>, <<1000, 0>> } :
          /\ decode_in' = [op |-> "validate_price",
                           arg |-> [price |-> price, slot |-> slots[1], current_slot |-> slots[2]]]
          /\ decode_out' = validate_price(price, slots[1], slots[2])
    /\ UNCHANGED << main_vars, cache_vars >>

\* ------------------------------------------------------------------------
\* The catalog fetch at startup (config.rs)
\* ------------------------------------------------------------------------
\* config.rs:93
max_attempts == 10

\* config.rs:94, the first delay in milliseconds
InitialBackoff == 10

\* one HTTP attempt ends in "send_err" (the request fails), "http_err" (the
\* server answers with an error status), "bad_json" (it answers 200 with a
\* body that is not the catalog) or "ok" (it answers 200 with the catalog)
\* the loop of fetch_markets from the state (attempts, backoff), with the
\* delays slept so far; outcomes[i] is what the i-th attempt ends in
RECURSIVE FetchLoop(_, _, _, _)
FetchLoop(outcomes, attempts, backoff, sleeps) ==
    LET n == attempts + 1
    IN  IF outcomes[n] = "ok"
        THEN [ result |-> [ok |-> "catalog"], attempts |-> n, sleeps |-> sleeps ]
        ELSE IF outcomes[n] = "bad_json"
        THEN [ result |-> [err |-> "error decoding response body"],
               attempts |-> n, sleeps |-> sleeps ]
        ELSE IF n >= max_attempts
        THEN [ result |-> [err |-> "Failed to fetch markets after 10 attempts"],
               attempts |-> n, sleeps |-> sleeps ]
        ELSE FetchLoop(outcomes, n, backoff * 2, Append(sleeps, backoff))

\* Config::fetch_markets
fetch_markets(outcomes) == FetchLoop(outcomes, 0, InitialBackoff, << >>)

\* the runs of attempts tried: k failures of one kind, then answers of one
\* kind
OutcomesTried ==
    {[i \in 1..max_attempts |-> IF i <= k THEN failure ELSE answer] :
        k \in 0..max_attempts, failure \in {"send_err", "http_err"},
        answer \in {"bad_json", "ok"}}

\* one call of fetch_markets
FetchMarkets ==
    /\ \E outcomes \in OutcomesTried :
          /\ decode_in' = [op |-> "fetch_markets", arg |-> outcomes]
          /\ decode_out' = fetch_markets(outcomes)
    /\ UNCHANGED << main_vars, cache_vars >>

\* the functions above called in any order on any of the inputs
DecodeInit ==
    InitWith({1}, "healthy", {FALSE}, {FALSE}, {[mint \in Mints |-> 0]})

DecodeNext ==
    \/ ParseReserve
    \/ ParseObligation
    \/ ScanObligations
    \/ ParsePrice
    \/ FetchOracleData
    \/ ValidatePrice
    \/ FetchMarkets

DecodeSpec == DecodeInit /\ [][DecodeNext]_vars

\* the steps a run takes when no obligation is unhealthy
SchedNext ==
    \/ FanOut
    \/ Gather
    \/ Aggregate
    \/ Unwrap
    \/ Rebalance
    \/ Sleep
    \/ \E m \in markets : Acquire(m)
    \/ \E m \in markets : FetchFail(m)
    \/ \E m \in markets : FetchPanic(m)
    \/ \E m \in markets : FetchHealthy(m)

\* more markets than permits, healthy obligations only
SchedSpec == SchedInit /\ [][SchedNext]_vars

\* ------------------------------------------------------------------------
\* Properties
\* ------------------------------------------------------------------------
\* the tasks that hold a permit and run process_market
Running == {m \in markets : task[m].pc \notin {"idle", "wait", "done"}}

\* C1: a liquidation transaction is submitted only when the refreshed view
\* the task computed last for that obligation has borrowed_value strictly
\* greater than unhealthy_borrow_value; in particular never for an obligation
\* without deposits and borrows
C1_SubmitOnlyUnhealthy ==
    \A m \in markets :
        inflight[m] # << >> =>
            /\ RGt(task[m].refreshed.borrowed_value, task[m].refreshed.unhealthy_borrow_value)
            /\ task[m].refreshed.borrowed_value # task[m].refreshed.unhealthy_borrow_value
            /\ ~(task[m].obligation.deposits = << >> /\ task[m].obligation.borrows = << >>)
            /\ task[m].refreshed = calculate_refreshed_obligation(task[m].obligation,
                                       task[m].reserves_map, task[m].oracle_data)

\* a transaction is in flight for an obligation that was read again after a
\* confirmed liquidation
C1_Witness ==
    /\ inflight[1] # << >>
    /\ task[1].confirmed >= 1
    /\ RGt(task[1].refreshed.borrowed_value, task[1].refreshed.unhealthy_borrow_value)

\* an equal pair of values is met at the head of the retry loop
C1_EqualSeen ==
    \E m \in markets :
        /\ task[m].pc = "loop"
        /\ task[m].refreshed.borrows # << >>
        /\ task[m].refreshed.borrowed_value = task[m].refreshed.unhealthy_borrow_value

\* C7: at most 10 market tasks execute process_market at any instant, and
\* the free permits are exactly those not held by a running task
C7_AtMostTenRunning ==
    /\ Cardinality(Running) <= 10
    /\ permits = 10 - Cardinality(Running)
    /\ \A m \in markets : task[m].pc = "wait" /\ ~ENABLED Acquire(m) => Cardinality(Running) = 10

\* ten tasks run and another one is waiting for a permit
C7_Witness ==
    /\ Cardinality(Running) = 10
    /\ \E m \in markets : task[m].pc = "wait"

\* the retry loop of the task of market m ends in this step
LoopEnds(m) ==
    \/ task'[m].pc = "done"
    \/ task'[m].idx = task[m].idx + 1

\* the mint of the borrow the task of market m would repay
RepayMint(m) == select_repay_borrow(task[m].refreshed).mint_address

\* C2: the retry loop ends, with no further submission for the obligation,
\* as soon as the recomputed view is healthy, the selection has no
\* candidate, the wallet balance of the repay mint is zero, or
\* liquidate_and_redeem returns an error
C2_LoopEndsOnBreakCondition ==
    [][\A m \in markets :
          /\ ( /\ task[m].pc = "loop"
               /\ task'[m] # task[m]
               /\ \/ ~RGt(task[m].refreshed.borrowed_value,
                          task[m].refreshed.unhealthy_borrow_value)
                  \/ task[m].refreshed.borrows = << >>
                  \/ task[m].refreshed.deposits = << >>
                  \/ wallet[RepayMint(m)] = 0 )
             => (LoopEnds(m) /\ inflight'[m] = inflight[m])
          /\ ( /\ task[m].pc \in {"loop", "confirm"}
               /\ event'[m] \in {"error", "rejected"}
               /\ task'[m] # task[m] )
             => (LoopEnds(m) /\ Len(inflight'[m]) <= Len(inflight[m]))
      ]_vars

C4_AmountIsCurrentBalance ==
    [][\A m \in markets :
          Len(inflight'[m]) > Len(inflight[m]) =>
              LET tx == inflight'[m][Len(inflight'[m])]
              IN  TxAmount(tx) = wallet[TxRepayMint(tx)]
      ]_vars

\* C5: the first account of RefreshObligation and the ninth account of the
\* liquidate instruction are the address of the obligation being liquidated
C5_ObligationAccount ==
    \A m \in markets :
        inflight[m] # << >> =>
            LET tx == Head(inflight[m])
                obligation_pubkey == task[m].unhealthy[task[m].idx].pubkey
            IN  /\ RefreshObligationIx(tx).accounts[1].pubkey = obligation_pubkey
                /\ LiquidateIx(tx).accounts[9].pubkey = obligation_pubkey

\* C6: with --dry-run no transaction is ever sent
C6_DryRunSendsNothing ==
    dry_run => \A m \in markets : inflight[m] = << >>

\* C8: process_market returns an error only when one of its three fetches
\* failed, never for an error that concerns a single obligation
C8_ObligationErrorsStayLocal ==
    \A m \in markets :
        (task[m].pc = "done" /\ task[m].result.kind = "err") => task[m].result.stage = "fetch"

\* C9: the scheduler aggregates only once every task of the epoch has
\* finished, failed or not; the totals are the sums over the tasks that
\* returned metrics; and main() can always take its next step
C9_FailedMarketDoesNotStopEpoch ==
    /\ main_pc \in {"fanout", "gather", "aggregate", "unwrap", "rebalance", "sleep"}
    /\ main_pc \in {"aggregate", "unwrap", "rebalance", "sleep"}
          => \A m \in markets : task[m].pc = "done"
    /\ main_pc \in {"unwrap", "rebalance", "sleep"}
          => \A f \in {"total_obligations", "unhealthy_obligations", "liquidations_attempted"} :
                overall_metrics[f] = SumMetrics(task, Cardinality(markets), f)
    /\ (main_pc = "gather" /\ \A m \in markets : task[m].pc = "done") => ENABLED Gather
    /\ main_pc = "aggregate" => ENABLED Aggregate
    /\ main_pc = "unwrap" => ENABLED Unwrap
    /\ main_pc = "rebalance" => ENABLED Rebalance
    /\ main_pc = "sleep" => ENABLED Sleep
    /\ main_pc = "fanout" => ENABLED FanOut

\* an epoch in which the task of market 1 failed reaches its sleep with the
\* metrics of the other markets added up
C9_Witness ==
    /\ main_pc = "sleep"
    /\ task[1].result.kind \in {"err", "panic"}
    /\ overall_metrics.total_obligations > 0

\* C10: a market task has at most one transaction in flight, and only
\* while it waits for the result of that submission
C10_OneInFlight ==
    \A m \in markets :
        /\ Len(inflight[m]) <= 1
        /\ inflight[m] # << >> => task[m].pc = "confirm"
        /\ task[m].pc = "confirm" => inflight[m] # << >>

\* the first attempt on the second obligation is in flight after the result
\* of a submission for the first obligation was observed
C10_Witness ==
    /\ inflight[1] # << >>
    /\ task[1].idx = 2
    /\ task[1].metrics.liquidations_attempted >= 2

\* the sum of one counter over the tasks of the set S that returned metrics
RECURSIVE SumOverSucceeded(_, _)
SumOverSucceeded(S, field) ==
    IF S = {} THEN 0
    ELSE LET m == CHOOSE x \in S : TRUE
         IN  (IF task[m].result # NoneVal /\ task[m].result.kind = "ok"
              THEN task[m].result.metrics[field] ELSE 0)
             + SumOverSucceeded(S \ {m}, field)

\* C11: the accumulator changes only when main() creates it empty at the
\* start of an epoch or folds the results after every task has finished; the
\* fold leaves in each counter the sum over the tasks that returned metrics,
\* and no step of a market task changes it
C11_AccumulatorWrittenAfterFanIn ==
    [][ /\ overall_metrics' # overall_metrics =>
             \/ main_pc = "fanout" /\ overall_metrics' = ZeroMetrics
             \/ /\ main_pc = "aggregate"
                /\ \A m \in markets : task[m].pc = "done"
        /\ (main_pc = "aggregate" /\ main_pc' = "unwrap") =>
             /\ \A m \in markets : task[m].pc = "done"
             /\ overall_metrics'.total_obligations =
                    SumOverSucceeded(markets, "total_obligations")
             /\ overall_metrics'.unhealthy_obligations =
                    SumOverSucceeded(markets, "unhealthy_obligations")
             /\ overall_metrics'.liquidations_attempted =
                    SumOverSucceeded(markets, "liquidations_attempted")
        /\ task' # task => overall_metrics' = overall_metrics \/ main_pc = "fanout"
      ]_vars

\* the totals of an epoch in which both markets returned metrics and market
\* 1 attempted a liquidation
C11_Witness ==
    /\ main_pc = "unwrap"
    /\ task[1].result.kind = "ok" /\ task[2].result.kind = "ok"
    /\ task[1].result.metrics.liquidations_attempted >= 1
    /\ overall_metrics.liquidations_attempted >= 1
    /\ overall_metrics.total_obligations =
          task[1].result.metrics.total_obligations + task[2].result.metrics.total_obligations
    /\ task[2].result.metrics.total_obligations = 1

\* the order of the phases of main()'s loop
PhaseOrder ==
    { <<"fanout", "gather">>, <<"gather", "aggregate">>, <<"aggregate", "unwrap">>,
      <<"unwrap", "rebalance">>, <<"rebalance", "sleep">>, <<"sleep", "fanout">> }

\* C12: main() moves through fan-out, gathering, aggregating, unwrap,
\* rebalance and sleep in this order only; the wallet is rebalanced only in
\* the rebalance phase and only when targets are configured; a market task
\* runs only in the gathering phase, and when an epoch fans out every task
\* of the epoch before it has finished
C12_PhasesInOrder ==
    [][ /\ main_pc' # main_pc => <<main_pc, main_pc'>> \in PhaseOrder
        /\ (main_pc = "rebalance" /\ wallet' # wallet) => targets
        /\ \A m \in markets :
              task[m].pc \notin {"idle", "done"} => main_pc = "gather"
        /\ \A m \in markets :
              task'[m].pc \notin {"idle", "done"} => main_pc' = "gather"
        /\ main_pc = "fanout" =>
              \A m \in markets : task[m].pc \in {"idle", "done"} /\ inflight[m] = << >>
      ]_vars

\* the tasks of a later epoch wait for their permits: the wallet no longer
\* holds what it held at the start, so an epoch came before this fan-out
C12_Witness ==
    /\ main_pc = "gather"
    /\ \A m \in markets : task[m].pc = "wait"
    /\ wallet # [mint \in Mints |-> 1]

\* C13: a transaction is k RefreshReserve instructions, one for each of the
\* k distinct reserves among the obligation's deposits and borrows, then one
\* RefreshObligation instruction, then one liquidate instruction, the last
C13_TransactionShape ==
    \A m \in markets :
        inflight[m] # << >> =>
            LET tx == Head(inflight[m])
                ob == task[m].obligation
                reserves == {ob.deposits[i].deposit_reserve : i \in 1..Len(ob.deposits)}
                            \cup {ob.borrows[i].borrow_reserve : i \in 1..Len(ob.borrows)}
                k == Cardinality(reserves)
            IN  /\ Len(tx) = k + 2
                /\ \A i \in 1..k : tx[i].data = <<3>> /\ Len(tx[i].accounts) = 3
                /\ {tx[i].accounts[1].pubkey : i \in 1..k} = reserves
                /\ tx[k + 1].data = <<7>>
                /\ tx[k + 2].data[1] = 12
                /\ \A i \in 1..(k + 1) : tx[i].data[1] # 12
                /\ \A i \in (1..k) \cup {k + 2} : tx[i].data[1] # 7

\* a transaction for an obligation whose two deposits and two borrows are in
\* the same two reserves: two RefreshReserve instructions, not four
C13_Witness ==
    /\ inflight[1] # << >>
    /\ Len(task[1].obligation.deposits) + Len(task[1].obligation.borrows) = 4
    /\ Len(Head(inflight[1])) = 4

\* the bytes of s read as a little-endian number
RECURSIVE FromLittleEndian(_)
FromLittleEndian(s) ==
    IF s = << >> THEN 0 ELSE Head(s) + 256 * FromLittleEndian(Tail(s))

FirstMaximal(s) ==
    s[CHOOSE i \in 1..Len(s) :
          /\ \A j \in 1..Len(s) : RLe(s[j].market_value, s[i].market_value)
          /\ \A j \in 1..(i - 1) : RGt(s[i].market_value, s[j].market_value)]

\* C15: for the view a market task holds, select_repay_borrow returns the
\* first borrow of maximal market_value and select_withdraw_deposit the first
\* deposit of maximal market_value, and each returns none exactly when its
\* list is empty
C15_FirstMaximumSelected ==
    \A m \in markets :
        task[m].refreshed # NoneVal =>
            LET refreshed == task[m].refreshed
            IN  /\ (select_repay_borrow(refreshed) = NoneVal) = (refreshed.borrows = << >>)
                /\ (select_withdraw_deposit(refreshed) = NoneVal) = (refreshed.deposits = << >>)
                /\ refreshed.borrows # << >> =>
                      select_repay_borrow(refreshed) = FirstMaximal(refreshed.borrows)
                /\ refreshed.deposits # << >> =>
                      select_withdraw_deposit(refreshed) = FirstMaximal(refreshed.deposits)

\* an oracle map that also prices the token of reserve 203
OracleComplete == OracleFull @@ ("C" :> TokenOracleData("C", 303, 1, RInt(1000)))

\* every deposit and borrow of the obligation resolves to a reserve and an
\* oracle
FullyResolved(obligation, reserves, oracle_data) ==
    /\ \A i \in 1..Len(obligation.deposits) :
          Resolves(obligation.deposits[i].deposit_reserve, reserves, oracle_data)
    /\ \A i \in 1..Len(obligation.borrows) :
          Resolves(obligation.borrows[i].borrow_reserve, reserves, oracle_data)

\* map a is map b with some of its keys left out
SubMap(a, b) == DOMAIN a \subseteq DOMAIN b /\ \A k \in DOMAIN a : a[k] = b[k]

\* C16: an obligation that is healthy when every deposit and borrow resolves
\* (reserves on chain, oracle map complete) is also judged healthy from the
\* maps the task holds, in which some reserves or oracles are missing
C16_SkippingKeepsHealthy ==
    \A m \in markets :
        (task[m].obligation # NoneVal
          /\ SubMap(task[m].oracle_data, OracleComplete)
          /\ SubMap(task[m].reserves_map, ChainReserves)
          /\ FullyResolved(task[m].obligation, ChainReserves, OracleComplete)
          /\ ~is_unhealthy(calculate_refreshed_obligation(
                 task[m].obligation, ChainReserves, OracleComplete)))
        => ~is_unhealthy(calculate_refreshed_obligation(
                 task[m].obligation, task[m].reserves_map, task[m].oracle_data))

\* C17: the assembly is a function of its inputs: for the obligation, market
\* config, wallet, amount and symbols a task is about to pass, every run of
\* the assembly produces the same list of instructions
C17_AssemblyDeterministic ==
    \A m \in markets :
        (task[m].pc = "loop" /\ is_unhealthy(task[m].refreshed) /\ HasCandidates(task[m].refreshed))
        => \A a1, a2 \in Assemblies(m, task[m], 1) : a1 = a2

\* C18: whatever inserts, removes and clears came before and however much
\* time has passed, get(k) is Some(v) exactly when the last operation on k
\* was an insert of v made less than ttl ago, and None otherwise: for a key
\* never inserted, removed or cleared since, or inserted ttl or more ago
C18_GetWithinTtl ==
    \A key \in CacheKeys :
        /\ Cache_get(cache, now, key) =
              IF key \in DOMAIN inserted /\ now - inserted[key].at < cache.ttl
              THEN [some |-> inserted[key].value]
              ELSE NoneVal
        /\ key \notin DOMAIN inserted => Cache_get(cache, now, key) = NoneVal
        /\ (key \in DOMAIN inserted /\ now - inserted[key].at >= cache.ttl)
              => Cache_get(cache, now, key) = NoneVal

\* k1 was inserted exactly ttl ago and reads None, k2 was inserted again
\* later and reads its second value
C18_Witness ==
    /\ cache.ttl = 2
    /\ "k1" \in DOMAIN inserted /\ now - inserted["k1"].at = cache.ttl
    /\ Cache_get(cache, now, "k1") = NoneVal
    /\ "k2" \in DOMAIN inserted /\ now - inserted["k2"].at = 1
    /\ Cache_get(cache, now, "k2") = [some |-> "v2"]

\* the positions of a scan whose account decodes and has been written
KeptPositions(accounts) ==
    {i \in 1..Len(accounts) :
        "ok" \in DOMAIN Obligation_parse(accounts[i]) /\ accounts[i].slot # 0}

\* C19: get_obligations returns, in scan order, exactly the accounts that
\* decode and whose last-update slot is not zero, each with its own address
\* and its own decoded obligation; an account that does not decode or has
\* slot zero is absent, and the accounts next to it are still returned
C19_ScanKeepsDecodedWrittenAccounts ==
    decode_in.op = "get_obligations" =>
        LET accounts == decode_in.arg
            kept == KeptPositions(accounts)
        IN  /\ Len(decode_out) = Cardinality(kept)
            /\ \A i \in kept :
                  \E j \in 1..Len(decode_out) :
                      /\ decode_out[j].pubkey = accounts[i].pubkey
                      /\ decode_out[j].obligation = Obligation_parse(accounts[i]).ok
                      /\ j = Cardinality({k \in kept : k <= i})
            /\ \A j \in 1..Len(decode_out) :
                  \E i \in kept : decode_out[j].pubkey = accounts[i].pubkey

\* a scan of two accounts, the first one byte short and the second sound:
\* the second alone is returned
C19_Witness ==
    /\ decode_in.op = "get_obligations"
    /\ Len(decode_in.arg) = 2
    /\ decode_in.arg[1].len = OBLIGATION_SIZE - 1
    /\ decode_in.arg[2].len = OBLIGATION_SIZE /\ decode_in.arg[2].slot # 0
    /\ decode_out = << [pubkey |-> 102, obligation |-> decode_in.arg[2].obligation] >>

\* C20: Reserve::parse fails on every input that is not exactly RESERVE_SIZE
\* bytes long and Obligation::parse on every input that is not exactly
\* OBLIGATION_SIZE bytes long, shorter or longer
C20_OnlyExactSizeParses ==
    /\ (decode_in.op = "Reserve::parse" /\ decode_in.arg.len # RESERVE_SIZE)
          => "err" \in DOMAIN decode_out
    /\ (decode_in.op = "Obligation::parse" /\ decode_in.arg.len # OBLIGATION_SIZE)
          => "err" \in DOMAIN decode_out

\* the reserve's price decodes: its primary oracle is not the sentinel, its
\* address parses, its account was returned with at least 220 bytes, and
\* the price read is not negative
PriceDecodes(reserve, accounts) ==
    /\ reserve.pyth_oracle \notin {NULL_ORACLE, MalformedAddress}
    /\ accounts[reserve.pyth_oracle] # NoneVal
    /\ accounts[reserve.pyth_oracle].len >= 220
    /\ accounts[reserve.pyth_oracle].price_i64 >= 0

\* C21: when the batched read succeeds, get_tokens_oracle_data returns a
\* map, and the map has an entry for a reserve's symbol exactly when the
\* reserve's price decodes; a sentinel primary oracle, a missing account,
\* a negative or undecodable price drop that reserve alone
C21_BadOracleDropsOnlyItsReserve ==
    (decode_in.op = "get_tokens_oracle_data" /\ decode_in.arg.rpc_ok) =>
        /\ "ok" \in DOMAIN decode_out
        /\ \A i \in 1..Len(decode_in.arg.reserves) :
              LET reserve == decode_in.arg.reserves[i]
              IN  reserve.symbol \in DOMAIN decode_out.ok
                     <=> PriceDecodes(reserve, decode_in.arg.accounts)

\* C26: parse_price_from_account returns an error value for every account
\* shorter than 220 bytes, lengths 200 to 219 included
C26_ShortAccountIsAnError ==
    (decode_in.op = "parse_price_from_account" /\ decode_in.arg.len < 220)
        => "err" \in DOMAIN decode_out

\* no oracle account of the batch has a length of 200 to 219 bytes
NoTruncatedAccount(accounts) ==
    \A k \in DOMAIN accounts :
        accounts[k] = NoneVal \/ accounts[k].len < 200 \/ accounts[k].len >= 220

\* C27: for every reserve whose price decodes, the fetch returns an entry
\* whose divisor is the mathematical value 10^decimals, which fits the
\* 32-bit field
C27_DivisorIsPowerOfTen ==
    (/\ decode_in.op = "get_tokens_oracle_data"
     /\ decode_in.arg.rpc_ok
     /\ NoTruncatedAccount(decode_in.arg.accounts)) =>
        \A i \in 1..Len(decode_in.arg.reserves) :
            LET reserve == decode_in.arg.reserves[i]
            IN  PriceDecodes(reserve, decode_in.arg.accounts) =>
                  /\ "ok" \in DOMAIN decode_out
                  /\ reserve.symbol \in DOMAIN decode_out.ok
                  /\ FitsU32(Pow10Exact(reserve.decimals))
                  /\ decode_out.ok[reserve.symbol].decimals = AsU32(Pow10Exact(reserve.decimals))

\* the elements of a sequence
Range(s) == {s[i] : i \in 1..Len(s)}

\* C25 as stated: a warning for every price at or below MIN_PRICE and every
\* price at or above MAX_PRICE, both bounds included, and for every price
\* more than MAX_SLOT_AGE slots old; invalid exactly when the price is zero or
\* negative; valid without warnings when positive, inside the bounds and fresh
C25_WarnsAtTheBounds ==
    decode_in.op = "validate_price" =>
        LET price == decode_in.arg.price
            age == decode_in.arg.current_slot - decode_in.arg.slot
        IN  /\ price <= MIN_PRICE => "low" \in Range(decode_out.warnings)
            /\ price >= MAX_PRICE => "high" \in Range(decode_out.warnings)
            /\ age > MAX_SLOT_AGE => "stale" \in Range(decode_out.warnings)
            /\ decode_out.is_valid <=> price > 0
            /\ (price > MIN_PRICE /\ price < MAX_PRICE /\ age <= MAX_SLOT_AGE)
                  => (decode_out.is_valid /\ decode_out.warnings = << >>)

\* C25 amended: the low warning is given exactly when the price as an f64 is
\* strictly below MIN_PRICE and the high warning exactly when it is strictly
\* above MAX_PRICE, so a price at either bound, or one that rounds to it,
\* gets none; the stale warning exactly when the price is more than
\* MAX_SLOT_AGE slots old; invalid exactly when the price is zero or
\* negative; a price that is positive, within the bounds (included) and at
\* most MAX_SLOT_AGE slots old is valid without warnings
C25_WarnsStrictlyOutsideTheBounds ==
    decode_in.op = "validate_price" =>
        LET price == decode_in.arg.price
            age == decode_in.arg.current_slot - decode_in.arg.slot
            warned == Range(decode_out.warnings)
        IN  /\ "low" \in warned <=> to_f64(price) < MIN_PRICE
            /\ "high" \in warned <=> to_f64(price) > MAX_PRICE
            /\ "stale" \in warned <=> age > MAX_SLOT_AGE
            /\ "zero_or_negative" \in warned <=> price <= 0
            /\ decode_out.is_valid <=> price > 0
            /\ price \in {MIN_PRICE, MAX_PRICE} => warned \subseteq {"stale"}
            /\ (price >= MIN_PRICE /\ price <= MAX_PRICE /\ age <= MAX_SLOT_AGE)
                  => (decode_out.is_valid /\ decode_out.warnings = << >>)

\* a price exactly at MAX_PRICE and exactly MAX_SLOT_AGE slots old is valid
\* and has no warning
C25_Witness ==
    /\ decode_in.op = "validate_price"
    /\ decode_in.arg.price = MAX_PRICE
    /\ decode_in.arg.current_slot - decode_in.arg.slot = MAX_SLOT_AGE
    /\ decode_out = [is_valid |-> TRUE, warnings |-> << >>]

\* the delays 10 ms, 20 ms, 40 ms, ... between n attempts
RECURSIVE Doubling(_, _)
Doubling(first, n) == IF n = 0 THEN << >> ELSE <<first>> \o Doubling(2 * first, n - 1)

\* C23: fetch_markets makes at most 10 attempts and sleeps between
\* consecutive attempts for 10 ms, 20 ms, 40 ms, ...; it returns the catalog
\* of the first attempt that succeeds, and an error exactly when all 10
\* attempts have failed, without a sleep after the tenth
C23_ErrorOnlyAfterTenFailures ==
    decode_in.op = "fetch_markets" =>
        LET outcomes == decode_in.arg
            succeeded == {i \in 1..max_attempts : outcomes[i] = "ok"}
        IN  /\ decode_out.attempts <= max_attempts
            /\ decode_out.sleeps = Doubling(InitialBackoff, decode_out.attempts - 1)
            /\ "ok" \in DOMAIN decode_out.result
                  => /\ decode_out.attempts \in succeeded
                     /\ \A i \in succeeded : decode_out.attempts <= i
            /\ "err" \in DOMAIN decode_out.result
                  <=> /\ decode_out.attempts = max_attempts
                      /\ succeeded = {}

\* the obligation the task of market m is working on needs a reserve that
\* the catalog of the market lacks
NeedsAbsentReserve(m) ==
    \/ \E r \in UniqueReserves(task[m].obligation) :
          ConfigByAddress(MarketConfig(m), r) = NoneVal
    \/ find_reserve(MarketConfig(m), select_repay_borrow(task[m].refreshed).symbol) = NoneVal
    \/ find_reserve(MarketConfig(m), select_withdraw_deposit(task[m].refreshed).symbol) = NoneVal

\* C22: when the obligation needs a reserve that the catalog lacks, no step
\* of the retry loop sends a transaction, and the failed call of
\* liquidate_and_redeem ends the loop for this obligation: the task goes on
\* with the next unhealthy obligation, or returns its metrics after the last
C22_AssemblyErrorBreaksLoop ==
    [][\A m \in markets :
          ( /\ task[m].pc = "loop"
            /\ is_unhealthy(task[m].refreshed)
            /\ HasCandidates(task[m].refreshed)
            /\ NeedsAbsentReserve(m)
            /\ task'[m] # task[m] )
          => /\ inflight'[m] = inflight[m]
             /\ event'[m] # "sent"
             /\ event'[m] = "error" =>
                   IF task[m].idx < Len(task[m].unhealthy)
                   THEN /\ task'[m].pc = "loop"
                        /\ task'[m].idx = task[m].idx + 1
                        /\ task'[m].obligation = task[m].unhealthy[task[m].idx + 1].obligation
                   ELSE /\ task'[m].pc = "done"
                        /\ task'[m].result.kind = "ok"
      ]_vars

\* the first obligation of the scan needs a reserve the catalog lacks; its
\* one attempt ended in an error of liquidate_and_redeem, nothing was sent,
\* and the task is at the second obligation
C22_Witness ==
    /\ task[1].pc = "loop"
    /\ task[1].idx = 2
    /\ event[1] = "error"
    /\ task[1].metrics.liquidations_attempted = 1
    /\ inflight[1] = << >>
    /\ \E r \in UniqueReserves(task[1].unhealthy[1].obligation) :
          ConfigByAddress(MarketConfig(1), r) = NoneVal

\* the task of market m is past its three fetches and has not returned
InRetryPhase(pc) == pc \in {"balances", "loop", "confirm", "reread"}

\* C24: from the fetches to the end of the task the reserve map, the oracle
\* map, the list of unhealthy obligations and the cached balances stay as
\* they are; the step after a confirmed submission replaces the obligation
\* alone, and the new view is the health of the new obligation computed from
\* the unchanged reserve and oracle maps
C24_RetryKeepsReserveAndOracleMaps ==
    [][\A m \in markets :
          /\ (InRetryPhase(task[m].pc) /\ InRetryPhase(task'[m].pc)) =>
                /\ task'[m].reserves_map = task[m].reserves_map
                /\ task'[m].oracle_data = task[m].oracle_data
                /\ task'[m].unhealthy = task[m].unhealthy
          /\ (task[m].pc = "reread" /\ task'[m].pc = "loop" /\ task'[m].idx = task[m].idx) =>
                /\ task'[m].wallet_balances = task[m].wallet_balances
                /\ task'[m].refreshed =
                      calculate_refreshed_obligation(task'[m].obligation,
                                                     task[m].reserves_map, task[m].oracle_data)
      ]_vars

\* after a confirmed submission the obligation read again differs from the
\* scanned one, and the view in the loop is its health under the maps
\* fetched at the start
C24_Witness ==
    /\ task[1].pc = "loop"
    /\ event[1] = "reread"
    /\ task[1].confirmed = 1
    /\ task[1].obligation # task[1].unhealthy[task[1].idx].obligation
    /\ task[1].reserves_map = ChainReserves
    /\ task[1].oracle_data = OracleOnlyA
    /\ task[1].refreshed =
          calculate_refreshed_obligation(task[1].obligation, ChainReserves, OracleOnlyA)
    /\ task[1].refreshed # task[1].unhealthy[task[1].idx].refreshed

\* liquidations_attempted as the task of market m holds it after a step: in
\* its metrics while it runs, in its result once it has returned Ok(metrics)
AttemptedAfter(m) ==
    IF task'[m].pc = "done"
    THEN task'[m].result.metrics.liquidations_attempted
    ELSE task'[m].metrics.liquidations_attempted

\* C28: in a task that does not fail, every iteration of the retry loop
\* entered with an unhealthy view adds one to liquidations_attempted and no
\* other step changes it; so every submission is counted in the step that
\* sends it, and a break on a missing candidate or on a zero balance is
\* counted although nothing is sent (the counter of the model stops at
\* MaxCount)
C28_AttemptsCountUnhealthyIterations ==
    [][\A m \in markets :
          LET before == task[m].metrics.liquidations_attempted
          IN  /\ ( /\ InRetryPhase(task[m].pc)
                   /\ task'[m] # task[m]
                   /\ ~(task'[m].pc = "done" /\ task'[m].result.kind # "ok") )
                 => AttemptedAfter(m) =
                       IF task[m].pc = "loop" /\ is_unhealthy(task[m].refreshed)
                       THEN Bump(before) ELSE before
              /\ Len(inflight'[m]) > Len(inflight[m])
                 => /\ Len(inflight'[m]) = Len(inflight[m]) + 1
                    /\ task[m].pc = "loop" /\ is_unhealthy(task[m].refreshed)
                    /\ task'[m].metrics.liquidations_attempted = Bump(before)
              /\ ( /\ task[m].pc = "loop"
                   /\ task'[m] # task[m]
                   /\ event'[m] \in {"no_candidate", "zero_balance"} )
                 => /\ AttemptedAfter(m) = Bump(before)
                    /\ inflight'[m] = inflight[m]
      ]_vars

\* a task returned Ok(metrics) with two attempts on its one unhealthy
\* obligation: the first was submitted, the second broke on a zero balance
C28_Witness ==
    /\ task[1].pc = "done"
    /\ task[1].result.kind = "ok"
    /\ task[1].result.metrics.unhealthy_obligations = 1
    /\ task[1].result.metrics.liquidations_attempted = 2
    /\ event[1] = "zero_balance"

\* C29: a task holds one permit from the moment it acquired it until it
\* ends, and gives it back when it ends, whether with metrics, with an
\* error or with a panic; so all permits are free while the scheduler
\* aggregates, post-processes or sleeps, and a task that waits for a permit
\* is never stuck: a permit is free, or a running task holds one and returns
\* it when it terminates
C29_NoPermitLeaked ==
    /\ [](main_pc \in {"aggregate", "unwrap", "rebalance", "sleep"} => permits = Permits)
    /\ [][\A m \in markets :
             \/ task'[m] = task[m]
             \/ /\ task[m].pc = "wait"
                      => (task'[m].pc = "fetch" /\ permits' = permits - 1)
                /\ (task[m].pc \notin {"idle", "wait", "done"} /\ task'[m].pc = "done")
                      => permits' = permits + 1
                /\ (task[m].pc \notin {"idle", "wait", "done"} /\ task'[m].pc # "done")
                      => permits' = permits
       ]_vars
    /\ []((\E m \in markets : task[m].pc = "wait")
            => (permits > 0 \/ \E m \in markets : task[m].pc \notin {"idle", "wait", "done"}))

\* the scheduler aggregates with all permits free after an epoch in which
\* the task of market 1 failed and the other tasks returned metrics
C29_Witness ==
    /\ main_pc = "aggregate"
    /\ permits = Permits
    /\ task[1].result.kind \in {"err", "panic"}
    /\ \A m \in markets \ {1} : task[m].result.kind = "ok"

\* C30: when the obligation cannot be read again, parsed or recomputed after
\* a confirmed submission, the retry loop of that obligation ends without
\* another submission and the task goes on with the next unhealthy
\* obligation, or returns its metrics after the last one; the task stays on
\* an obligation after a submission only with the re-read obligation and
\* its recomputed view, never returns to an earlier obligation, and submits
\* again only from such a view that is unhealthy
C30_FailedRereadEndsRetry ==
    [][\A m \in markets :
          /\ (task[m].pc = "reread" /\ event'[m] = "reread_failed") =>
                /\ inflight'[m] = inflight[m]
                /\ IF task[m].idx < Len(task[m].unhealthy)
                   THEN /\ task'[m].pc = "loop"
                        /\ task'[m].idx = task[m].idx + 1
                        /\ task'[m].obligation = task[m].unhealthy[task'[m].idx].obligation
                        /\ task'[m].refreshed = task[m].unhealthy[task'[m].idx].refreshed
                        /\ task'[m].confirmed = 0
                   ELSE /\ task'[m].pc = "done"
                        /\ task'[m].result.kind = "ok"
          /\ (task[m].pc = "reread" /\ task'[m] # task[m] /\ event'[m] # "reread_failed") =>
                /\ event'[m] = "reread"
                /\ task'[m].pc = "loop"
                /\ task'[m].idx = task[m].idx
                /\ task'[m].refreshed =
                      calculate_refreshed_obligation(task'[m].obligation,
                                                     task[m].reserves_map, task[m].oracle_data)
          /\ (InRetryPhase(task[m].pc) /\ InRetryPhase(task'[m].pc)) =>
                task'[m].idx >= task[m].idx
          /\ Len(inflight'[m]) > Len(inflight[m]) =>
                /\ task[m].pc = "loop"
                /\ task'[m].idx = task[m].idx
                /\ is_unhealthy(task[m].refreshed)
                /\ task[m].confirmed > 0 =>
                      task[m].refreshed =
                         calculate_refreshed_obligation(task[m].obligation,
                                                        task[m].reserves_map, task[m].oracle_data)
      ]_vars

\* the re-read after a confirmed submission for the first of two unhealthy
\* obligations failed, and the task is at the second one with its scanned
\* view and nothing in flight
C30_Witness ==
    /\ event[1] = "reread_failed"
    /\ task[1].pc = "loop"
    /\ task[1].idx = 2
    /\ task[1].confirmed = 0
    /\ task[1].metrics.liquidations_attempted >= 1
    /\ task[1].refreshed = task[1].unhealthy[2].refreshed
    /\ inflight[1] = << >>

====
